---- MODULE Spec2Model ----
(***************************************************************************)
(* The vault-writing agent of jwj2002/agents: the Extraction Record, the   *)
(* markdown templates, the Daily Log Store, the Status and Dashboard       *)
(* renderers and the Rollup Aggregator (obsidian_agent/vault_writer.py,    *)
(* obsidian_agent/templates.py).                                           *)
(*                                                                         *)
(* Documents are character strings.  The module is ASCII, so the em dash   *)
(* (U+2014) of the templates is written "~".                               *)
(***************************************************************************)
EXTENDS Integers, Sequences, FiniteSets, TLC

VARIABLES
    projdirs,   \* the project directories that exist under <vault>/Projects
    status,     \* project -> [text, mtime] of Projects/<p>/STATUS.md
    daily,      \* project -> (stem -> text) of Projects/<p>/Log/Daily/<stem>.md
    weekly,     \* project -> (week -> text) of Projects/<p>/Log/Weekly/<week>.md
    monthly,    \* project -> (month -> text) of Projects/<p>/Log/Monthly/<month>.md
    dashboard,  \* "DASHBOARD.md" -> text, when the file exists
    agg,        \* the accumulators and the return value of the last _aggregate_dailies
    calls,      \* the calls made so far, in order, with their arguments
    procs       \* process -> its position and locals, for the runs made of steps

vars == <<projdirs, status, daily, weekly, monthly, dashboard, agg, calls, procs>>

-----------------------------------------------------------------------------
(* Python's str and re operations, as the code uses them.                  *)

EmDash == "~"

Char(s, i) == SubSeq(s, i, i)

Min(S) == CHOOSE i \in S : \A j \in S : i <= j

Max(S) == CHOOSE i \in S : \A j \in S : i >= j

\* s[i:] starts with pat
StartsWithAt(s, pat, i) ==
    /\ i + Len(pat) - 1 <= Len(s)
    /\ SubSeq(s, i, i + Len(pat) - 1) = pat

\* str.startswith
startswith(s, pat) == StartsWithAt(s, pat, 1)

\* the leftmost place at or after from where pat occurs in s, 0 when there is
\* none; the text is scanned a window at a time, each window twice as wide
RECURSIVE FindIn(_, _, _, _)
FindIn(s, pat, from, width) ==
    LET end  == Len(s) - Len(pat) + 1
        hi   == IF from + width - 1 < end THEN from + width - 1 ELSE end
        hits == {i \in from..hi : StartsWithAt(s, pat, i)}
    IN  IF from > end THEN 0
        ELSE IF hits # {} THEN Min(hits)
        ELSE FindIn(s, pat, hi + 1, width + width)

\* str.find from position from (1-based); 0 when pat does not occur
Find(s, pat, from) == FindIn(s, pat, from, Len(pat) + 31)

\* pat in s
Contains(s, pat) == Find(s, pat, 1) # 0

\* the number of places where pat occurs in s
Count(s, pat) ==
    Cardinality({i \in 1..(Len(s) - Len(pat) + 1) : StartsWithAt(s, pat, i)})

Whitespace == {" ", "\n", "\t", "\r"}

\* str.strip()
strip(s) ==
    LET keep == {i \in 1..Len(s) : Char(s, i) \notin Whitespace}
    IN  IF keep = {} THEN "" ELSE SubSeq(s, Min(keep), Max(keep))

\* str.lstrip(chars)
lstrip(s, chars) ==
    LET keep == {i \in 1..Len(s) : Char(s, i) \notin chars}
    IN  IF keep = {} THEN "" ELSE SubSeq(s, Min(keep), Len(s))

\* the pieces of s between line breaks, the empty ones included; the text is
\* cut at the line break nearest after its middle, then each part in turn
RECURSIVE Lines(_)
Lines(s) ==
    LET mid == Find(s, "\n", (Len(s) \div 2) + 1)
        nl  == IF mid # 0 THEN mid ELSE Find(s, "\n", 1)
    IN  IF nl = 0 THEN <<s>>
        ELSE Lines(SubSeq(s, 1, nl - 1)) \o Lines(SubSeq(s, nl + 1, Len(s)))

\* the lines without the empty piece after a final line break
DropFinalEmpty(lines) ==
    IF lines[Len(lines)] = "" THEN SubSeq(lines, 1, Len(lines) - 1) ELSE lines

\* str.splitlines(): the pieces between line breaks, no piece after a final one
splitlines(s) == DropFinalEmpty(Lines(s))

\* str.split(sep): every piece between occurrences of sep, empty ones included
RECURSIVE split(_, _)
split(s, sep) ==
    LET at == Find(s, sep, 1)
    IN  IF at = 0 THEN <<s>>
        ELSE <<SubSeq(s, 1, at - 1)>> \o split(SubSeq(s, at + Len(sep), Len(s)), sep)

\* sep.join(items)
RECURSIVE join(_, _)
join(sep, items) ==
    IF items = <<>> THEN ""
    ELSE IF Len(items) = 1 THEN items[1]
    ELSE join(sep, SubSeq(items, 1, Len(items) \div 2)) \o sep
         \o join(sep, SubSeq(items, (Len(items) \div 2) + 1, Len(items)))

\* [f(x) for x in items]
Map(f(_), items) == [i \in 1..Len(items) |-> f(items[i])]

\* [x for x in items if keep(x)]
RECURSIVE Filter(_, _)
Filter(keep(_), items) ==
    IF items = <<>> THEN <<>>
    ELSE IF Len(items) = 1 THEN (IF keep(items[1]) THEN items ELSE <<>>)
    ELSE Filter(keep, SubSeq(items, 1, Len(items) \div 2))
         \o Filter(keep, SubSeq(items, (Len(items) \div 2) + 1, Len(items)))

\* the concatenation of a sequence of sequences
RECURSIVE Flatten(_)
Flatten(seqs) ==
    IF seqs = <<>> THEN <<>>
    ELSE IF Len(seqs) = 1 THEN seqs[1]
    ELSE Flatten(SubSeq(seqs, 1, Len(seqs) \div 2))
         \o Flatten(SubSeq(seqs, (Len(seqs) \div 2) + 1, Len(seqs)))

Range(seq) == {seq[i] : i \in 1..Len(seq)}

\* re.search(head (.*?)(?=stop1|stop2|...|\Z), content, re.DOTALL).group(1):
\* the leftmost place where head occurs, then the shortest text up to one of the
\* stops or the end.  <<>> when head does not occur, else <<group(1)>>.
SearchSection(content, head, stops) ==
    LET at   == Find(content, head, 1)
        b    == at + Len(head)
        ends == {Find(content, stop, b) : stop \in stops} \ {0}
        e    == IF ends = {} THEN Len(content) + 1 ELSE Min(ends)
    IN  IF at = 0 THEN <<>> ELSE <<SubSeq(content, b, e - 1)>>

-----------------------------------------------------------------------------
(* obsidian_agent/templates.py                                             *)

\* _bullet_list without the empty marker (a faulty variant)
_bullet_list_unmarked(items) ==
    join("\n", Map(LAMBDA item : "- " \o item, items))

_bullet_list(items) ==
    IF items = <<>> THEN "_None_"
    ELSE join("\n", Map(LAMBDA item : "- " \o item, items))

_checkbox_list(items) ==
    IF items = <<>> THEN "_None_"
    ELSE join("\n", Map(LAMBDA item : "- [ ] " \o item, items))

_first_or(items) == IF items # <<>> THEN items[1] ELSE EmDash

_render_completed_section(extract) ==
    IF extract.completed_groups # <<>>
    THEN join("\n", Flatten(Map(
             LAMBDA group : <<"\n### " \o group.heading>>
                            \o Map(LAMBDA item : "- [x] " \o item, group.items),
             extract.completed_groups)))
    ELSE IF extract.completed # <<>>
    THEN join("\n", Map(LAMBDA item : "- [x] " \o item, extract.completed))
    ELSE "_None_"

_render_issues_table(extract) ==
    IF extract.issues = <<>> THEN "_None_"
    ELSE join("\n", <<"| Issue | Title | Effort | Status |",
                      "|-------|-------|--------|--------|">>
                    \o Map(LAMBDA issue : "| " \o issue.number \o " | " \o issue.title
                                          \o " | " \o issue.effort \o " | "
                                          \o issue.status \o " |",
                           extract.issues))

_render_commits_table(extract) ==
    IF extract.commits = <<>> THEN "_None_"
    ELSE join("\n", <<"| Commit | Description |",
                      "|--------|-------------|">>
                    \o Map(LAMBDA commit : "| " \o commit.hash \o " | "
                                           \o commit.message \o " |",
                           extract.commits))

\* x or fallback
Or(x, fallback) == IF x # "" THEN x ELSE fallback

render_status(project_name, extract, updated) ==
    "# " \o project_name \o "\n\n> Last updated: " \o updated
    \o "\n\n## Status\n" \o Or(extract.status, "_Unknown_")
    \o "\n\n## Phase\n" \o Or(extract.phase, "_Not specified_")
    \o "\n\n## Completed Today\n" \o _render_completed_section(extract)
    \o "\n\n## Issues\n" \o _render_issues_table(extract)
    \o "\n\n## Follow-up\n" \o _checkbox_list(extract.next_steps)
    \o "\n\n## Decisions\n" \o _bullet_list(extract.decisions)
    \o "\n\n## Blockers\n" \o _bullet_list(extract.blockers)
    \o "\n\n## GitHub References\n" \o _bullet_list(extract.github_refs)
    \o "\n\n## Notes\n" \o _bullet_list(extract.notes) \o "\n"

render_dashboard_row(project_name, extract, updated) ==
    "| " \o project_name \o " | " \o Or(extract.status, EmDash)
    \o " | " \o Or(extract.phase, EmDash)
    \o " | " \o _first_or(extract.next_steps) \o " | " \o updated \o " |"

render_dashboard(rows, updated) ==
    "# Dashboard\n\n> Auto-generated: " \o updated
    \o "\n\n| Project | Status | Phase | Next Step | Last Updated |"
    \o "\n|---------|--------|-------|-----------|--------------|\n"
    \o (IF rows # <<>> THEN join("\n", rows) ELSE "| _No projects yet_ | | | | |")
    \o "\n"

\* the rule and the heading that open an entry of a Daily document
EntrySeparator == "\n---\n\n### "

render_daily_entry(project_name, extract, time) ==
    EntrySeparator \o time \o " " \o EmDash \o " " \o project_name
    \o "\n\n**Summary**: " \o Or(extract.summary, "_No summary_")
    \o "\n\n## Completed Today\n" \o _render_completed_section(extract)
    \o "\n\n## Issues\n" \o _render_issues_table(extract)
    \o "\n\n## Commits\n" \o _render_commits_table(extract)
    \o "\n\n## Decisions\n" \o _bullet_list(extract.decisions)
    \o "\n\n## Blockers\n" \o _bullet_list(extract.blockers)
    \o "\n\n## Follow-up\n" \o _checkbox_list(extract.next_steps)
    \o "\n\n## Notes\n" \o _bullet_list(extract.notes)
    \o "\n\n**GitHub Refs**: "
    \o (IF extract.github_refs # <<>> THEN join(", ", extract.github_refs) ELSE "_None_")
    \o "\n\n**Knowledge**:\n" \o _bullet_list(extract.knowledge) \o "\n"

render_daily_header(date) == "# Daily Log: " \o date \o "\n"

render_weekly(week, project_name, completed, decisions, blockers, github_refs, generated) ==
    "# Week " \o week \o "\n\n> Generated: " \o generated
    \o "\n\n## " \o project_name
    \o "\n\n### Completed\n" \o _bullet_list(completed)
    \o "\n\n### Decisions\n" \o _bullet_list(decisions)
    \o "\n\n### Blockers (end of week)\n" \o _bullet_list(blockers)
    \o "\n\n### GitHub References\n" \o _bullet_list(github_refs) \o "\n"

render_monthly(month, project_name, completed, decisions, blockers, github_refs, generated) ==
    "# " \o month \o "\n\n> Generated: " \o generated
    \o "\n\n## " \o project_name
    \o "\n\n### Completed\n" \o _bullet_list(completed)
    \o "\n\n### Key Decisions\n" \o _bullet_list(decisions)
    \o "\n\n### Unresolved Blockers\n" \o _bullet_list(blockers)
    \o "\n\n### GitHub References\n" \o _bullet_list(github_refs) \o "\n"

-----------------------------------------------------------------------------
(* datetime, as vault_writer.py uses it                                    *)

Digits == "0123456789"

IsDigit(c) == Len(c) = 1 /\ Contains(Digits, c)

DigitVal(c) == Find(Digits, c, 1) - 1

AllDigits(s) == \A i \in 1..Len(s) : IsDigit(Char(s, i))

RECURSIVE ToInt(_)
ToInt(s) ==
    IF s = "" THEN 0
    ELSE 10 * ToInt(SubSeq(s, 1, Len(s) - 1)) + DigitVal(Char(s, Len(s)))

\* f"{n:02d}"
TwoDigit(n) ==
    IF n < 10 THEN "0" \o Char(Digits, n + 1)
    ELSE Char(Digits, (n \div 10) + 1) \o Char(Digits, (n % 10) + 1)

\* f"{n}" for a year
FourDigit(n) == TwoDigit(n \div 100) \o TwoDigit(n % 100)

IsLeap(y) == y % 4 = 0 /\ (y % 100 # 0 \/ y % 400 = 0)

DaysInMonth(y, m) ==
    IF m = 2 THEN (IF IsLeap(y) THEN 29 ELSE 28)
    ELSE IF m \in {4, 6, 9, 11} THEN 30 ELSE 31

RECURSIVE DaysBeforeMonth(_, _)
DaysBeforeMonth(y, m) ==
    IF m = 1 THEN 0 ELSE DaysBeforeMonth(y, m - 1) + DaysInMonth(y, m - 1)

DaysBeforeYear(y) ==
    (y - 1) * 365 + ((y - 1) \div 4) - ((y - 1) \div 100) + ((y - 1) \div 400)

\* date.toordinal(): day 1 is 0001-01-01, a Monday
_ymd2ord(y, m, d) == DaysBeforeYear(y) + DaysBeforeMonth(y, m) + d

\* the Monday of ISO week 1 of the year whose 1 January has ordinal firstday
Week1Monday(firstday, firstweekday) ==
    IF firstweekday > 3 THEN firstday - firstweekday + 7 ELSE firstday - firstweekday

Weekday(ordinal) == (ordinal + 6) % 7

_isoweek1monday(year) ==
    Week1Monday(_ymd2ord(year, 1, 1), Weekday(_ymd2ord(year, 1, 1)))

\* date.isocalendar() of the day with ordinal today in year: <<ISO year, ISO week,
\* ISO weekday>>; w0, w1, w2 are the Mondays of ISO week 1 of year - 1, year, year + 1
IsoCalendarOf(year, today, w0, w1, w2) ==
    IF today < w1
    THEN <<year - 1, ((today - w0) \div 7) + 1, ((today - w0) % 7) + 1>>
    ELSE IF (today - w1) \div 7 >= 52 /\ today >= w2
    THEN <<year + 1, 1, ((today - w2) % 7) + 1>>
    ELSE <<year, ((today - w1) \div 7) + 1, ((today - w1) % 7) + 1>>

isocalendar(dt) ==
    IsoCalendarOf(dt.year, _ymd2ord(dt.year, dt.month, dt.day),
                  _isoweek1monday(dt.year - 1), _isoweek1monday(dt.year),
                  _isoweek1monday(dt.year + 1))

\* whether t matches %m (hi = 12) or %d (hi = 31): 1[0-2]|0[1-9]|[1-9], and
\* 3[01]|[12]\d|0[1-9]|[1-9]
IsMonthOrDay(t, hi) ==
    /\ Len(t) \in {1, 2}
    /\ AllDigits(t)
    /\ ToInt(t) >= 1
    /\ ToInt(t) <= hi

\* whether t matches %d, which has one more alternative than %m: " [1-9]"
IsDay(t) ==
    \/ IsMonthOrDay(t, 31)
    \/ Len(t) = 2 /\ Char(t, 1) = " " /\ IsDigit(Char(t, 2)) /\ Char(t, 2) # "0"

\* the date of year y, month m, day d, when there is one
MakeDate(y, m, d) ==
    IF y >= 1 /\ d <= DaysInMonth(y, m)
    THEN <<[year |-> y, month |-> m, day |-> d]>>
    ELSE <<>>

\* the date that the fields of "%Y-%m-%d" give; %Y is four digits
ParseFields(parts) ==
    IF /\ Len(parts) = 3
       /\ Len(parts[1]) = 4
       /\ AllDigits(parts[1])
       /\ IsMonthOrDay(parts[2], 12)
       /\ IsDay(parts[3])
    THEN MakeDate(ToInt(parts[1]), ToInt(parts[2]), ToInt(lstrip(parts[3], {" "})))
    ELSE <<>>

\* datetime.strptime(s, "%Y-%m-%d"): <<>> for ValueError, else <<dt>>
strptime(s) == ParseFields(split(s, "-"))

\* f"{dt.year}-W{dt.isocalendar()[1]:02d}"
file_week(dt) == FourDigit(dt.year) \o "-W" \o TwoDigit(isocalendar(dt)[2])

\* the order of code points among the characters of file names
CodePoints == " #-.0123456789ABCDEFGHIJKLMNOPQRSTUVWXYZ_abcdefghijklmnopqrstuvwxyz"

\* a < b, as Python compares str
RECURSIVE StrLess(_, _)
StrLess(a, b) ==
    IF b = "" THEN FALSE
    ELSE IF a = "" THEN TRUE
    ELSE IF Head(a) = Head(b) THEN StrLess(Tail(a), Tail(b))
    ELSE Find(CodePoints, Head(a), 1) < Find(CodePoints, Head(b), 1)

\* sorted(dir.glob("*.md")), as the stems of the files
RECURSIVE SortedFiles(_)
FirstThenRest(names, first) == <<first>> \o SortedFiles(names \ {first})

SortedFiles(names) ==
    IF names = {} THEN <<>>
    ELSE FirstThenRest(names,
             CHOOSE a \in names : \A b \in names : ~StrLess(b \o ".md", a \o ".md"))

SortedStems(dir) == SortedFiles(DOMAIN dir)

-----------------------------------------------------------------------------
(* obsidian_agent/vault_writer.py: the Rollup Aggregator                   *)

\* the items of the lines of a section's text: "- <item>", but not "- _None_"
BulletItems(text) ==
    Map(LAMBDA line : strip(SubSeq(line, 3, Len(line))),
        Filter(LAMBDA line : startswith(line, "- ") /\ line # "- _None_",
               Map(strip, splitlines(strip(text)))))

\* the items of every match in a sequence of at most one match
ItemsOfMatch(match) == IF match = <<>> THEN <<>> ELSE BulletItems(match[1])

_extract_section_bullets(content, header) ==
    ItemsOfMatch(SearchSection(content, "**" \o header \o "**:\n",
                               {"\n**", "\n---", "\n###"}))

\* the references of the text after "**GitHub Refs**:"
RefsOfText(refs_text) ==
    IF refs_text # "" /\ refs_text # "_None_"
    THEN Filter(LAMBDA r : r # "", Map(strip, split(refs_text, ",")))
    ELSE <<>>

\* the github_refs that one Daily document adds: every "**GitHub Refs**:" line
ExtractGithubRefs(content) ==
    Flatten(Map(LAMBDA line : RefsOfText(strip(SubSeq(line, Find(line, ":", 1) + 1,
                                                      Len(line)))),
                Filter(LAMBDA line : startswith(line, "**GitHub Refs**:"),
                       splitlines(content))))

\* _dedup without the seen set: every item is kept (a faulty variant)
_dedup_keeping_all(items) == items

\* _dedup with result.insert(0, item): last seen first (a faulty variant)
RECURSIVE DedupPrepending(_, _, _, _)
DedupPrepending(items, i, seen, result) ==
    IF i > Len(items) THEN result
    ELSE IF items[i] \notin seen
    THEN DedupPrepending(items, i + 1, seen \cup {items[i]}, <<items[i]>> \o result)
    ELSE DedupPrepending(items, i + 1, seen, result)

_dedup_prepending(items) == DedupPrepending(items, 1, {}, <<>>)

RECURSIVE DedupFrom(_, _, _, _)
DedupFrom(items, i, seen, result) ==
    IF i > Len(items) THEN result
    ELSE IF items[i] \notin seen
    THEN DedupFrom(items, i + 1, seen \cup {items[i]}, Append(result, items[i]))
    ELSE DedupFrom(items, i + 1, seen, result)

_dedup(items) == DedupFrom(items, 1, {}, <<>>)

\* whether strptime gave a date of the week
InWeek(dt, week) == dt # <<>> /\ file_week(dt[1]) = week

\* the period filter of _aggregate_dailies: whether the file is read
MatchesPeriod(file_date, week, month) ==
    IF week # "" THEN InWeek(strptime(file_date), week)
    ELSE IF month # "" THEN startswith(file_date, month)
    ELSE TRUE

NoItems == [completed |-> <<>>, decisions |-> <<>>, blockers |-> <<>>, github_refs |-> <<>>]

\* the four lists as accumulated over the files read, in their order
Accumulate(dir, files) ==
    [completed   |-> Flatten(Map(LAMBDA f : _extract_section_bullets(dir[f], "Completed"),
                                 files)),
     decisions   |-> Flatten(Map(LAMBDA f : _extract_section_bullets(dir[f], "Decisions"),
                                 files)),
     blockers    |-> Flatten(Map(LAMBDA f : _extract_section_bullets(dir[f], "Blockers"),
                                 files)),
     github_refs |-> Flatten(Map(LAMBDA f : ExtractGithubRefs(dir[f]), files))]

\* the files read, the lists as accumulated (acc) and the lists as returned (ret)
Aggregated(files, acc) ==
    [files |-> files,
     acc   |-> acc,
     ret   |-> [completed   |-> _dedup(acc.completed),
                decisions   |-> _dedup(acc.decisions),
                blockers    |-> _dedup(acc.blockers),
                github_refs |-> _dedup(acc.github_refs)]]

\* the files of the Daily directory that the period filter keeps, sorted
SelectedFiles(dir, week, month) ==
    Filter(LAMBDA stem : MatchesPeriod(stem, week, month), SortedStems(dir))

AggregateFiles(dir, files) == Aggregated(files, Accumulate(dir, files))

\* _aggregate_dailies over the files dir of a Daily directory
_aggregate_dailies(dir, week, month) ==
    AggregateFiles(dir, SelectedFiles(dir, week, month))

-----------------------------------------------------------------------------
(* obsidian_agent/extractor.py: the Extraction Record                      *)

\* SessionExtract with every field at its default
EmptyExtract ==
    [status |-> "", phase |-> "", summary |-> "",
     completed |-> <<>>, completed_groups |-> <<>>, issues |-> <<>>, commits |-> <<>>,
     next_steps |-> <<>>, decisions |-> <<>>, blockers |-> <<>>, github_refs |-> <<>>,
     knowledge |-> <<>>, notes |-> <<>>]

-----------------------------------------------------------------------------
(* obsidian_agent/vault_writer.py: files and the VaultWriter               *)

\* a directory with no file in it
EmptyDir == [name \in {} |-> ""]

\* whether the file exists
Exists(dir, name) == name \in DOMAIN dir

\* a write that puts the content into every file of the directory (a faulty
\* variant)
WriteTextEverywhere(dir, name, content) ==
    [n \in DOMAIN dir \cup {name} |-> content]

\* path.write_text(content): the file holds content and nothing else
WriteText(dir, name, content) ==
    [n \in DOMAIN dir \cup {name} |-> IF n = name THEN content ELSE dir[n]]

\* open(path, "w").write(entry): the entry replaces the file's text (a faulty
\* variant of the append)
AppendTextTruncating(dir, name, entry) ==
    [n \in DOMAIN dir \cup {name} |-> IF n = name THEN entry ELSE dir[n]]

\* open(path, "a").write(entry): the file's text, then entry
AppendText(dir, name, entry) ==
    [n \in DOMAIN dir \cup {name} |->
        IF n # name THEN dir[n]
        ELSE IF Exists(dir, name) THEN dir[name] \o entry
        ELSE entry]

\* the subdirectory of project_name in tree, created empty when absent
\* (_log_dir: mkdir(parents=True, exist_ok=True))
LogDir(tree, project_name) ==
    IF project_name \in DOMAIN tree THEN tree[project_name] ELSE EmptyDir

\* the clock: one minute passes with every call
NowDate == "2026-03-02"

NowTime == "09:" \o TwoDigit(Len(calls))

\* datetime.now().strftime("%Y-%m-%d %H:%M")
Now == NowDate \o " " \o NowTime

Call(op, project_name, extract, key) ==
    [op |-> op, project |-> project_name, extract |-> extract, key |-> key]

LastCall == calls[Len(calls)]

\* the bullet items of a section's text, in _parse_status_file._section
SectionItems(text) ==
    IF text \in {"_None_", "_Unknown_", "_Not specified_"} THEN <<>>
    ELSE Map(LAMBDA line : strip(lstrip(line, {"-", " "})),
             Filter(LAMBDA line : startswith(strip(line), "-"), splitlines(text)))

\* _parse_status_file._section, given the match
SectionOfMatch(m) == IF m = <<>> THEN <<>> ELSE SectionItems(strip(m[1]))

_section(content, header) ==
    SectionOfMatch(SearchSection(content, "## " \o header \o "\n", {"\n## "}))

\* the text of a scalar section, empty when it is a placeholder
ScalarText(text) == IF startswith(text, "_") THEN "" ELSE text

\* _parse_status_file._section_text, given the match
SectionTextOfMatch(m) == IF m = <<>> THEN "" ELSE ScalarText(strip(m[1]))

_section_text(content, header) ==
    SectionTextOfMatch(SearchSection(content, "## " \o header \o "\n", {"\n## "}))

_parse_status_file(content) ==
    [EmptyExtract EXCEPT
        !.status      = _section_text(content, "Status"),
        !.phase       = _section_text(content, "Phase"),
        !.next_steps  = _section(content, "Next Steps"),
        !.decisions   = _section(content, "Decisions"),
        !.blockers    = _section(content, "Blockers"),
        !.github_refs = _section(content, "GitHub References")]

\* sorted(self.projects.iterdir())
SortedNames(names) ==
    [k \in 1..Cardinality(names) |->
        CHOOSE a \in names : Cardinality({b \in names : StrLess(b, a)}) = k - 1]

\* write_status with open(path, "a"): the new text follows the old (a faulty
\* variant)
write_status_appending(project_name, extract) ==
    /\ projdirs' = projdirs \cup {project_name}
    /\ status' = WriteText(status, project_name,
                           [text  |-> (IF Exists(status, project_name)
                                       THEN status[project_name].text ELSE "")
                                      \o render_status(project_name, extract, Now),
                            mtime |-> NowDate])
    /\ calls' = Append(calls, Call("write_status", project_name, extract, ""))
    /\ UNCHANGED <<daily, weekly, monthly, dashboard, agg>>

write_status(project_name, extract) ==
    /\ projdirs' = projdirs \cup {project_name}
    /\ status' = WriteText(status, project_name,
                           [text  |-> render_status(project_name, extract, Now),
                            mtime |-> NowDate])
    /\ calls' = Append(calls, Call("write_status", project_name, extract, ""))
    /\ UNCHANGED <<daily, weekly, monthly, dashboard, agg>>

\* the header written without the test for the file (a faulty variant)
EnsureHeaderAlways(log_dir, date) ==
    [n \in DOMAIN log_dir \cup {date} |->
        IF n = date THEN "# Daily Log: " \o date \o "\n" ELSE log_dir[n]]

\* lines 63-64 of write_daily: the header, when the file is absent
EnsureHeader(log_dir, date) ==
    IF ~Exists(log_dir, date)
    THEN WriteText(log_dir, date, render_daily_header(date))
    ELSE log_dir

\* lines 60-68, with the default of date resolved
WriteDailyFor(project_name, extract, date) ==
    /\ projdirs' = projdirs \cup {project_name}
    /\ daily' = WriteText(daily, project_name,
                    AppendText(EnsureHeader(LogDir(daily, project_name), date), date,
                               render_daily_entry(project_name, extract, NowTime)))
    /\ calls' = Append(calls, Call("write_daily", project_name, extract, date))
    /\ UNCHANGED <<status, weekly, monthly, dashboard, agg>>

write_daily(project_name, extract, date) ==
    WriteDailyFor(project_name, extract, Or(date, NowDate))

\* lines 88-91 of write_dashboard: the row of one project
DashboardRow(project_name, status_file) ==
    render_dashboard_row(project_name, _parse_status_file(status_file.text),
                         status_file.mtime)

\* write_dashboard without the test for STATUS.md: a row for every project
\* directory (a faulty variant)
write_dashboard_every_dir ==
    /\ dashboard' = WriteText(dashboard, "DASHBOARD.md",
           render_dashboard(
               Map(LAMBDA name : IF Exists(status, name)
                                 THEN DashboardRow(name, status[name])
                                 ELSE render_dashboard_row(name, EmptyExtract, NowDate),
                   SortedNames(projdirs)),
               Now))
    /\ calls' = Append(calls, Call("write_dashboard", "", EmptyExtract, ""))
    /\ UNCHANGED <<projdirs, status, daily, weekly, monthly, agg>>

write_dashboard ==
    /\ dashboard' = WriteText(dashboard, "DASHBOARD.md",
           render_dashboard(
               Map(LAMBDA name : DashboardRow(name, status[name]),
                   Filter(LAMBDA name : Exists(status, name), SortedNames(projdirs))),
               Now))
    /\ calls' = Append(calls, Call("write_dashboard", "", EmptyExtract, ""))
    /\ UNCHANGED <<projdirs, status, daily, weekly, monthly, agg>>

\* generate_weekly that keeps the text of the rollup file it finds and writes
\* the new text after it (a faulty variant)
WriteWeeklyMerging(project_name, week, result) ==
    /\ weekly' = WriteText(weekly, project_name,
                     AppendText(LogDir(weekly, project_name), week,
                         render_weekly(week, project_name, result.ret.completed,
                                       result.ret.decisions, result.ret.blockers,
                                       result.ret.github_refs, Now)))
    /\ agg' = result

\* lines 116-119 of generate_weekly: render and write the rollup
WriteWeekly(project_name, week, result) ==
    /\ weekly' = WriteText(weekly, project_name,
                     WriteText(LogDir(weekly, project_name), week,
                         render_weekly(week, project_name, result.ret.completed,
                                       result.ret.decisions, result.ret.blockers,
                                       result.ret.github_refs, Now)))
    /\ agg' = result

\* lines 111-119, with the default of week resolved
GenerateWeeklyFor(project_name, week, daily_dir) ==
    /\ projdirs' = projdirs \cup {project_name}
    /\ daily' = WriteText(daily, project_name, daily_dir)
    /\ WriteWeekly(project_name, week, _aggregate_dailies(daily_dir, week, ""))
    /\ calls' = Append(calls, Call("generate_weekly", project_name, EmptyExtract, week))
    /\ UNCHANGED <<status, monthly, dashboard>>

generate_weekly(project_name, week) ==
    GenerateWeeklyFor(project_name, Or(week, file_week(strptime(NowDate)[1])),
                      LogDir(daily, project_name))

\* lines 136-139 of generate_monthly: render and write the rollup
WriteMonthly(project_name, month, result) ==
    /\ monthly' = WriteText(monthly, project_name,
                      WriteText(LogDir(monthly, project_name), month,
                          render_monthly(month, project_name, result.ret.completed,
                                         result.ret.decisions, result.ret.blockers,
                                         result.ret.github_refs, Now)))
    /\ agg' = result

\* lines 131-139, with the default of month resolved
GenerateMonthlyFor(project_name, month, daily_dir) ==
    /\ projdirs' = projdirs \cup {project_name}
    /\ daily' = WriteText(daily, project_name, daily_dir)
    /\ WriteMonthly(project_name, month, _aggregate_dailies(daily_dir, "", month))
    /\ calls' = Append(calls, Call("generate_monthly", project_name, EmptyExtract, month))
    /\ UNCHANGED <<status, weekly, dashboard>>

generate_monthly(project_name, month) ==
    GenerateMonthlyFor(project_name, Or(month, SubSeq(NowDate, 1, 7)),
                       LogDir(daily, project_name))

-----------------------------------------------------------------------------
(* The vault as a state machine: the inputs, the initial vault, the calls  *)

Projects == {"Foo", "Bar"}

RecA ==
    [EmptyExtract EXCEPT
        !.status      = "Implementing login",
        !.phase       = "Phase 1",
        !.summary     = "Added the login endpoint",
        !.completed   = <<"Added login endpoint">>,
        !.next_steps  = <<"[HIGH] Wire token rotation">>,
        !.decisions   = <<"Chose SQLite">>,
        !.github_refs = <<"#105">>]

RecB ==
    [EmptyExtract EXCEPT
        !.status           = "Testing login",
        !.summary          = "Grouped work on auth",
        !.completed        = <<"Added login endpoint", "Added logout">>,
        !.completed_groups = <<[heading |-> "Auth",
                                items   |-> <<"Added login endpoint", "Added logout">>]>>,
        !.issues           = <<[number |-> "#106", title |-> "Logout",
                                effort |-> "1d", status |-> "Pending"]>>,
        !.commits          = <<[hash |-> "abc1234", message |-> "add logout"]>>,
        !.decisions        = <<"Chose SQLite", "Sessions in cookies">>,
        !.blockers         = <<"Blocked on API docs">>,
        !.github_refs      = <<"PR #42", "#105", "PR #42">>,
        !.knowledge        = <<"Cookies need SameSite">>,
        !.notes            = <<"Login takes 40ms">>]

Records == {RecA, RecB}

Dates == {"2026-02-06"}

Weeks == {"2026-W06"}

Months == {"2026-02"}

\* how many calls a run of the vault makes
MaxOps == 3

\* a rollup left in the vault by an earlier run, whose Daily documents are gone
StaleItem == "Migrated the old notes"

StaleWeekly ==
    render_weekly("2026-W06", "Foo", <<StaleItem>>, <<>>, <<>>, <<"#7">>, "2026-02-08 18:00")

StaleMonthly ==
    render_monthly("2026-02", "Foo", <<StaleItem>>, <<>>, <<>>, <<"#7">>, "2026-02-28 18:00")

\* no process is part way through a run
NoProcs == [name \in {} |-> ""]

EmptyVault ==
    /\ projdirs = {}
    /\ status = EmptyDir
    /\ daily = EmptyDir
    /\ weekly = EmptyDir
    /\ monthly = EmptyDir
    /\ dashboard = EmptyDir
    /\ agg = [files |-> <<>>, acc |-> NoItems, ret |-> NoItems]
    /\ calls = <<>>
    /\ procs = NoProcs

VaultWithStaleRollups ==
    /\ projdirs = {"Foo"}
    /\ status = EmptyDir
    /\ daily = WriteText(EmptyDir, "Foo", EmptyDir)
    /\ weekly = WriteText(EmptyDir, "Foo", WriteText(EmptyDir, "2026-W06", StaleWeekly))
    /\ monthly = WriteText(EmptyDir, "Foo", WriteText(EmptyDir, "2026-02", StaleMonthly))
    /\ dashboard = EmptyDir
    /\ agg = [files |-> <<>>, acc |-> NoItems, ret |-> NoItems]
    /\ calls = <<>>
    /\ procs = NoProcs

Init == EmptyVault

\* the calls of a run on the vault, their arguments drawn from the inputs above
StatusCall ==
    /\ Len(calls) < MaxOps
    /\ \E p \in Projects, r \in Records : write_status(p, r)
    /\ UNCHANGED procs

DailyCall ==
    /\ Len(calls) < MaxOps
    /\ \E p \in Projects, r \in Records, d \in Dates : write_daily(p, r, d)
    /\ UNCHANGED procs

DashboardCall ==
    /\ Len(calls) < MaxOps
    /\ write_dashboard
    /\ UNCHANGED procs

WeeklyCall ==
    /\ Len(calls) < MaxOps
    /\ \E p \in Projects, w \in Weeks : generate_weekly(p, w)
    /\ UNCHANGED procs

MonthlyCall ==
    /\ Len(calls) < MaxOps
    /\ \E p \in Projects, m \in Months : generate_monthly(p, m)
    /\ UNCHANGED procs

Next == StatusCall \/ DailyCall \/ DashboardCall \/ WeeklyCall \/ MonthlyCall

Spec == Init /\ [][Next]_vars

-----------------------------------------------------------------------------
(* The Daily Log Store and the Rollup Aggregator of one project, over the  *)
(* dates of the monthly scenario                                           *)

MonthDates == {"2026-02-01", "2026-02-15", "2026-03-01"}

\* how many calls a run of the Daily Log Store and the aggregator makes
MaxDailyOps == 4

AppendCall ==
    /\ Len(calls) < MaxDailyOps
    /\ \E r \in Records, d \in MonthDates : write_daily("Foo", r, d)
    /\ UNCHANGED procs

WeekRollupCall ==
    /\ Len(calls) < MaxDailyOps
    /\ generate_weekly("Foo", "2026-W07")
    /\ UNCHANGED procs

MonthRollupCall ==
    /\ Len(calls) < MaxDailyOps
    /\ generate_monthly("Foo", "2026-02")
    /\ UNCHANGED procs

NextDaily == AppendCall \/ WeekRollupCall \/ MonthRollupCall

SpecDaily == EmptyVault /\ [][NextDaily]_vars

-----------------------------------------------------------------------------
(* The week filter, over dates around a year boundary                      *)

WeekDates == {"2024-01-01", "2024-12-30", "2025-01-01", "2026-02-06", "2026-02-13"}

WeekFilters == {"2024-W01", "2025-W01", "2026-W06"}

\* how many calls a run of the week filter makes
MaxWeekOps == 3

DatedAppendCall ==
    /\ Len(calls) < MaxWeekOps
    /\ \E d \in WeekDates : write_daily("Foo", RecA, d)
    /\ UNCHANGED procs

FilteredWeekCall ==
    /\ Len(calls) < MaxWeekOps
    /\ \E w \in WeekFilters : generate_weekly("Foo", w)
    /\ UNCHANGED procs

NextWeek == DatedAppendCall \/ FilteredWeekCall

SpecWeek == EmptyVault /\ [][NextWeek]_vars

-----------------------------------------------------------------------------
(* Regeneration of rollups in a vault that already holds rollup files      *)

\* two days of the week 2026-W06
RollupDates == {"2026-02-02", "2026-02-06"}

\* how many calls a run of the regeneration makes
MaxRollupOps == 3

RollupAppendCall ==
    /\ Len(calls) < MaxRollupOps
    /\ \E r \in Records, d \in RollupDates : write_daily("Foo", r, d)
    /\ UNCHANGED procs

RegenerateWeekCall ==
    /\ Len(calls) < MaxRollupOps
    /\ generate_weekly("Foo", "2026-W06")
    /\ UNCHANGED procs

RegenerateMonthCall ==
    /\ Len(calls) < MaxRollupOps
    /\ generate_monthly("Foo", "2026-02")
    /\ UNCHANGED procs

NextRollup == RollupAppendCall \/ RegenerateWeekCall \/ RegenerateMonthCall

SpecRollup == VaultWithStaleRollups /\ [][NextRollup]_vars

-----------------------------------------------------------------------------
(* The Status document and its re-parsing by the Dashboard Renderer        *)

StatusTexts == {"Implementing login", "_WIP_ login flow", ""}

PhaseTexts == {"Phase 1", ""}

StatusRecords ==
    {[RecA EXCEPT !.status = s, !.phase = ph] : s \in StatusTexts, ph \in PhaseTexts}

\* how many calls a run of the Status and Dashboard renderers makes
MaxStatusOps == 3

RenderStatusCall ==
    /\ Len(calls) < MaxStatusOps
    /\ \E r \in StatusRecords : write_status("Foo", r)
    /\ UNCHANGED procs

RenderDashboardCall ==
    /\ Len(calls) < MaxStatusOps
    /\ write_dashboard
    /\ UNCHANGED procs

NextStatus == RenderStatusCall \/ RenderDashboardCall

SpecStatus == EmptyVault /\ [][NextStatus]_vars


-----------------------------------------------------------------------------
(* Records without list data, rendered into the Status and Daily documents *)

\* the records whose sequence fields are all empty
BlankRecords ==
    {[EmptyExtract EXCEPT !.status = s, !.phase = ph, !.summary = sm] :
        s \in {"", "Implementing login"}, ph \in {"", "Phase 1"},
        sm \in {"", "Read the code"}}

\* how many calls a run of the renderers makes
MaxRenderOps == 2

BlankStatusCall ==
    /\ Len(calls) < MaxRenderOps
    /\ \E r \in BlankRecords : write_status("Foo", r)
    /\ UNCHANGED procs

BlankDailyCall ==
    /\ Len(calls) < MaxRenderOps
    /\ \E r \in BlankRecords : write_daily("Foo", r, "2026-02-06")
    /\ UNCHANGED procs

NextRender == BlankStatusCall \/ BlankDailyCall

SpecRender == EmptyVault /\ [][NextRender]_vars

-----------------------------------------------------------------------------
(* Properties of the vault                                                 *)

\* a is the beginning of b
IsPrefix(a, b) == Len(a) <= Len(b) /\ SubSeq(b, 1, Len(a)) = a

\* the time and the time stamp that the clock gave to the i-th call
TimeOfCall(i) == "09:" \o TwoDigit(i - 1)

StampOfCall(i) == NowDate \o " " \o TimeOfCall(i)

\* the indices of the calls so far that satisfy which, ascending
CallsWhere(which(_)) == Filter(which, [i \in 1..Len(calls) |-> i])

IsGenerate(call) == call.op \in {"generate_weekly", "generate_monthly"}

\* C1: every step of write_status, write_daily, write_dashboard, generate_weekly
\* and generate_monthly leaves every Daily document in place and its old content
\* at the beginning of its new content: nothing appended is rewritten, truncated
\* or deleted (step by step, hence from every earlier point to every later one)
C1_DailyOnlyExtended ==
    [][\A p \in DOMAIN daily :
          /\ p \in DOMAIN daily'
          /\ \A d \in DOMAIN daily[p] :
                /\ d \in DOMAIN daily'[p]
                /\ IsPrefix(daily[p][d], daily'[p][d])]_vars

\* a Daily document with one entry got a second one, and a rollup was generated
\* from it afterwards
C1_Witness ==
    /\ Len(calls) = 3
    /\ calls[1].op = "write_daily" /\ calls[2].op = "write_daily"
    /\ calls[1].project = "Foo" /\ calls[2].project = "Foo"
    /\ calls[3].op = "generate_monthly" /\ calls[3].project = "Foo"
    /\ Count(daily["Foo"]["2026-02-06"], EntrySeparator) = 2

\* the calls that appended to the Daily document of date, in call order
AppendsTo(date) ==
    CallsWhere(LAMBDA i : calls[i].op = "write_daily" /\ calls[i].key = date)

\* the document is its header and then the entries of the calls, one each, in
\* call order, each beginning with the rule and the time of its call
HoldsEntriesOf(doc, date, appends, pieces) ==
    /\ Len(pieces) = Len(appends) + 1
    /\ Count(doc, EntrySeparator) = Len(appends)
    /\ doc = join(EntrySeparator, pieces)
    /\ pieces[1] = render_daily_header(date)
    /\ \A k \in 1..Len(appends) :
          /\ startswith(pieces[k + 1], TimeOfCall(appends[k]))
          /\ EntrySeparator \o pieces[k + 1]
               = render_daily_entry("Foo", calls[appends[k]].extract,
                                    TimeOfCall(appends[k]))

\* C2: after N calls of write_daily for one project and one date, the document
\* being absent at first, the document holds exactly N entries, in the order of
\* the calls, each starting with the rule-and-timestamp separator
C2_NAppendsNEntries ==
    \A date \in RollupDates :
        IF AppendsTo(date) = <<>> THEN ~Exists(LogDir(daily, "Foo"), date)
        ELSE /\ Exists(LogDir(daily, "Foo"), date)
             /\ HoldsEntriesOf(daily["Foo"][date], date, AppendsTo(date),
                               split(daily["Foo"][date], EntrySeparator))

\* three calls for the same date, with different records
C2_Witness ==
    /\ Len(calls) >= 3
    /\ \A i \in 1..3 : calls[i].op = "write_daily" /\ calls[i].key = "2026-02-06"
    /\ calls[1].extract = RecA /\ calls[2].extract = RecB /\ calls[3].extract = RecA

\* the ISO week of a date, ISO year and ISO week number
IsoWeekOf(date) ==
    FourDigit(isocalendar(strptime(date)[1])[1]) \o "-W"
    \o TwoDigit(isocalendar(strptime(date)[1])[2])

\* whether date lies in the period of a generate_weekly / generate_monthly call
InPeriodOf(date, call) ==
    IF call.op = "generate_weekly" THEN IsoWeekOf(date) = call.key
    ELSE startswith(date, call.key)

\* the calls before the last one that appended a record for a date of its period
AppendsInPeriod ==
    CallsWhere(LAMBDA i : /\ i < Len(calls)
                          /\ calls[i].op = "write_daily"
                          /\ InPeriodOf(calls[i].key, LastCall))

\* C3: after generate_weekly / generate_monthly, every completed item, decision
\* and blocker of every record appended for a date of the period is in the
\* corresponding list of the rollup
C3_RollupReadsBackEntries ==
    (calls # <<>> /\ IsGenerate(LastCall)) =>
        \A i \in Range(AppendsInPeriod) :
            /\ Range(calls[i].extract.completed) \subseteq Range(agg.ret.completed)
            /\ Range(calls[i].extract.decisions) \subseteq Range(agg.ret.decisions)
            /\ Range(calls[i].extract.blockers) \subseteq Range(agg.ret.blockers)


\* the day number of a date, as date.toordinal() counts it
OrdinalOf(date) ==
    _ymd2ord(strptime(date)[1].year, strptime(date)[1].month, strptime(date)[1].day)

\* the week filter selects the documents selected out of those of dir as the ISO
\* week W demands
SelectsIsoWeek(W, selected, stems) ==
    /\ \A f \in stems : (f \in selected) <=> (IsoWeekOf(f) = W)
    /\ \A f, g \in selected :
          OrdinalOf(f) - OrdinalOf(g) <= 6 /\ OrdinalOf(g) - OrdinalOf(f) <= 6
    /\ \A f \in selected, g \in stems :
          OrdinalOf(g) = OrdinalOf(f) + 7 => g \notin selected
    /\ \A f, g \in stems :
          IsoWeekOf(f) = IsoWeekOf(g) => ((f \in selected) <=> (g \in selected))

\* C4: generate_weekly with the week filter W reads a Daily document if and only
\* if its date lies in ISO week W (ISO year and ISO week number): the documents
\* read are at most 6 days apart, a document dated 7 days after one that is read
\* is not read, and documents of one ISO week are read together or not at all
C4_WeekFilterIsIsoWeek ==
    (calls # <<>> /\ LastCall.op = "generate_weekly") =>
        SelectsIsoWeek(LastCall.key, Range(agg.files), DOMAIN LogDir(daily, "Foo"))

\* the four lists of a record, as the rollup names them
ListsOf(extract) ==
    [completed   |-> extract.completed,
     decisions   |-> extract.decisions,
     blockers    |-> extract.blockers,
     github_refs |-> extract.github_refs]

\* C5: generate_monthly for 2026-02 over Daily documents dated 2026-02-01,
\* 2026-02-15 and 2026-03-01 reads exactly the first two; the items of the records
\* appended to them are in the rollup's lists, and the rollup's lists hold no item
\* of another document
C5_MonthReadsItsDocuments ==
    (/\ calls # <<>>
     /\ LastCall.op = "generate_monthly"
     /\ DOMAIN LogDir(daily, "Foo") = MonthDates) =>
        /\ agg.files = <<"2026-02-01", "2026-02-15">>
        /\ \A k \in DOMAIN agg.ret :
              Range(agg.ret[k])
                = UNION {Range(ListsOf(calls[i].extract)[k]) : i \in Range(AppendsInPeriod)}

NoDuplicates(items) ==
    \A i, j \in 1..Len(items) : i # j => items[i] # items[j]

\* the index of the first occurrence of x in items
FirstAt(items, x) == Min({i \in 1..Len(items) : items[i] = x})

\* out holds every distinct string of items once, in the order of first occurrence
IsDedupOf(out, items) ==
    /\ NoDuplicates(out)
    /\ Range(out) = Range(items)
    /\ \A i, j \in 1..Len(out) :
          i < j => FirstAt(items, out[i]) < FirstAt(items, out[j])

\* the github_refs of the records appended to the documents of files, document by
\* document and, in a document, entry by entry
RefsWrittenTo(files) ==
    Flatten(Map(LAMBDA f : Flatten(Map(LAMBDA i : calls[i].extract.github_refs,
                                       AppendsTo(f))),
                files))

\* C6: each of the four sequences the Rollup Aggregator returns has no two equal
\* strings, holds every distinct string of its accumulated input, and orders them
\* by first occurrence in the accumulation; the accumulation takes the documents
\* in ascending date order and the items in document order
C6_DedupFirstOccurrence ==
    /\ \A k \in DOMAIN agg.ret : IsDedupOf(agg.ret[k], agg.acc[k])
    /\ (calls # <<>> /\ IsGenerate(LastCall)) =>
          /\ \A i, j \in 1..Len(agg.files) :
                i < j => StrLess(agg.files[i], agg.files[j])
          /\ agg.acc.github_refs = RefsWrittenTo(agg.files)

\* the later document was written first, and the accumulation of the two holds a
\* reference twice
C6_Witness ==
    /\ Len(calls) = 3
    /\ calls[1].op = "write_daily" /\ calls[1].key = "2026-02-06"
    /\ calls[2].op = "write_daily" /\ calls[2].key = "2026-02-02"
    /\ LastCall.op = "generate_monthly"
    /\ agg.acc.github_refs = <<"#105", "PR #42", "#105", "PR #42">>
    /\ agg.ret.github_refs = <<"#105", "PR #42">>

\* C7: a generate_weekly / generate_monthly call that repeats the call before it,
\* the Daily documents being as they were, returns the same four sequences; and
\* deduplicating a returned sequence again returns it unchanged
C7_AggregationIdempotent ==
    [][/\ \A k \in DOMAIN agg'.ret : _dedup(agg'.ret[k]) = agg'.ret[k]
       /\ (calls # <<>> /\ IsGenerate(LastCall) /\ calls' = Append(calls, LastCall))
             => (daily' = daily /\ agg'.ret = agg.ret)]_vars

\* the same rollup was generated twice in a row over documents whose
\* accumulation holds a reference twice
C7_Witness ==
    /\ Len(calls) = 3
    /\ calls[1].op = "write_daily"
    /\ calls[2].op = "generate_monthly"
    /\ calls[3] = calls[2]
    /\ Len(agg.acc.github_refs) > Len(agg.ret.github_refs)
    /\ Len(agg.ret.github_refs) = 2


\* the weekly rollup that the Daily documents of now give, written at stamp
WeeklyFrom(week, lists, stamp) ==
    render_weekly(week, "Foo", lists.completed, lists.decisions, lists.blockers,
                  lists.github_refs, stamp)

\* the monthly rollup that the Daily documents of now give, written at stamp
MonthlyFrom(month, lists, stamp) ==
    render_monthly(month, "Foo", lists.completed, lists.decisions, lists.blockers,
                   lists.github_refs, stamp)

\* the text has nothing of the rollup file that was there before
HasNoStaleItem(text) == ~Contains(text, StaleItem) /\ ~Contains(text, "#7")

\* C8: after generate_weekly / generate_monthly the rollup file is the rendering
\* of what the Daily documents of the period give now, and nothing else: an item
\* that only the previous rollup file held is not in it
C8_RollupFullyReplaced ==
    /\ (calls # <<>> /\ LastCall.op = "generate_weekly") =>
          /\ weekly["Foo"][LastCall.key]
               = WeeklyFrom(LastCall.key,
                            _aggregate_dailies(LogDir(daily, "Foo"), LastCall.key, "").ret,
                            StampOfCall(Len(calls)))
          /\ HasNoStaleItem(weekly["Foo"][LastCall.key])
    /\ (calls # <<>> /\ LastCall.op = "generate_monthly") =>
          /\ monthly["Foo"][LastCall.key]
               = MonthlyFrom(LastCall.key,
                             _aggregate_dailies(LogDir(daily, "Foo"), "", LastCall.key).ret,
                             StampOfCall(Len(calls)))
          /\ HasNoStaleItem(monthly["Foo"][LastCall.key])

\* the vault held a weekly rollup with the stale item, a record was appended for
\* a day of that week, and the weekly rollup was generated again
C8_Witness ==
    /\ Contains(StaleWeekly, StaleItem)
    /\ Len(calls) = 2
    /\ calls[1].op = "write_daily" /\ calls[1].extract = RecB
    /\ calls[2].op = "generate_weekly" /\ calls[2].key = "2026-W06"
    /\ Contains(weekly["Foo"]["2026-W06"], "- PR #42\n- #105")

\* the calls that wrote the Status document of a project, in call order
StatusWritesOf(project_name) ==
    CallsWhere(LAMBDA i : calls[i].op = "write_status"
                          /\ calls[i].project = project_name)

\* the status, the phase and the list items of a record
ItemsOf(extract) ==
    ({extract.status, extract.phase, extract.summary}
        \cup Range(extract.completed) \cup Range(extract.next_steps)
        \cup Range(extract.decisions) \cup Range(extract.blockers)
        \cup Range(extract.github_refs) \cup Range(extract.notes)
        \cup {group.heading : group \in Range(extract.completed_groups)}
        \cup {issue.title : issue \in Range(extract.issues)}) \ {""}

\* the document is the rendering of the last of the writes, and holds no item that
\* only an earlier write had
ReflectsLastOnly(text, project_name, writes) ==
    /\ text = render_status(project_name, calls[writes[Len(writes)]].extract,
                            StampOfCall(writes[Len(writes)]))
    /\ \A k \in 1..(Len(writes) - 1) :
          \A item \in ItemsOf(calls[writes[k]].extract)
                        \ ItemsOf(calls[writes[Len(writes)]].extract) :
              ~Contains(text, item)

\* C9: after any calls of write_status the Status document of a project is the
\* rendering of the last record written for it: no status, phase or list item
\* that only an earlier record had remains in it
C9_StatusIsLastRecord ==
    \A p \in Projects :
        IF StatusWritesOf(p) = <<>> THEN ~Exists(status, p)
        ELSE /\ Exists(status, p)
             /\ ReflectsLastOnly(status[p].text, p, StatusWritesOf(p))

\* two different records were written for one project, one after the other
C9_Witness ==
    /\ Len(calls) >= 2
    /\ calls[1].op = "write_status" /\ calls[1].project = "Foo"
    /\ calls[1].extract = RecA
    /\ calls[2].op = "write_status" /\ calls[2].project = "Foo"
    /\ calls[2].extract = RecB
    /\ Contains(status["Foo"].text, "Testing login")

\* C10: when write_status has written the Status document of a record whose
\* status and phase are non-empty single lines, _parse_status_file returns that
\* status and that phase from the document
C10_StatusRoundTrip ==
    (/\ calls # <<>>
     /\ LastCall.op = "write_status"
     /\ LastCall.extract.status # ""
     /\ LastCall.extract.phase # "") =>
        /\ _parse_status_file(status["Foo"].text).status = LastCall.extract.status
        /\ _parse_status_file(status["Foo"].text).phase = LastCall.extract.phase


\* the lines of the Dashboard that are rows of a project
RowsOf(text, project_name) ==
    Filter(LAMBDA line : startswith(line, "| " \o project_name \o " | "),
           splitlines(text))

\* the columns of a row of the Dashboard
ColumnsOf(row) == split(row, " | ")

\* the next-step column of the row is the first next step of the record, and the
\* placeholder only when the record has none
ShowsFirstNextStep(row, extract) ==
    /\ extract.next_steps # <<>> => ColumnsOf(row)[4] = extract.next_steps[1]
    /\ ColumnsOf(row)[4] = EmDash => extract.next_steps = <<>>

\* the record that the Status document of a project was last written from
LastStatusRecord(project_name) ==
    calls[StatusWritesOf(project_name)[Len(StatusWritesOf(project_name))]].extract

\* C11: after write_dashboard, the row of a project whose Status document was
\* written from a record shows the first next step of that record in its
\* next-step column, and the em-dash placeholder only when the record has no
\* next steps
C11_DashboardNextStep ==
    (/\ calls # <<>>
     /\ LastCall.op = "write_dashboard"
     /\ StatusWritesOf("Foo") # <<>>) =>
        /\ Len(RowsOf(dashboard["DASHBOARD.md"], "Foo")) = 1
        /\ ShowsFirstNextStep(RowsOf(dashboard["DASHBOARD.md"], "Foo")[1],
                              LastStatusRecord("Foo"))


\* the lines of the Dashboard's table after its two heading lines
TableBody(text) == SubSeq(splitlines(text), 7, Len(splitlines(text)))

NoProjectsRow == "| _No projects yet_ | | | | |"

\* the table body has one row for each project that has a Status document and
\* none for another, or the placeholder row alone when there is no such project
OneRowPerStatus(text, dirs, with_status) ==
    /\ \A p \in dirs :
          Len(RowsOf(text, p)) = (IF p \in with_status THEN 1 ELSE 0)
    /\ IF with_status = {} THEN TableBody(text) = <<NoProjectsRow>>
       ELSE /\ Len(TableBody(text)) = Cardinality(with_status)
            /\ NoProjectsRow \notin Range(TableBody(text))

\* C12: after write_dashboard the table has exactly one row for each project
\* directory that holds a Status document and no row for one that holds none;
\* with no Status document at all (no project directory, or none that holds one)
\* the body is the 'no projects yet' row alone
C12_DashboardRows ==
    (calls # <<>> /\ LastCall.op = "write_dashboard") =>
        /\ Exists(dashboard, "DASHBOARD.md")
        /\ OneRowPerStatus(dashboard["DASHBOARD.md"], Projects, DOMAIN status)

\* one project directory holds a Status document, the other only a Daily log
C12_Witness ==
    /\ calls # <<>> /\ LastCall.op = "write_dashboard"
    /\ projdirs = {"Foo", "Bar"}
    /\ DOMAIN status = {"Foo"}
    /\ Len(TableBody(dashboard["DASHBOARD.md"])) = 1


\* the body of the section that heading opens in text: what follows the heading
\* up to the next empty line or the end; <<>> when the heading is not there
BodyUnder(text, heading) == SearchSection(text, heading, {"\n\n"})

StatusListHeadings ==
    {"## Completed Today\n", "## Issues\n", "## Follow-up\n", "## Decisions\n",
     "## Blockers\n", "## GitHub References\n", "## Notes\n"}

DailyListHeadings ==
    {"## Completed Today\n", "## Issues\n", "## Commits\n", "## Decisions\n",
     "## Blockers\n", "## Follow-up\n", "## Notes\n", "**GitHub Refs**: ",
     "**Knowledge**:\n"}

\* every heading is in the text, once, and the body under it is the marker
AllMarkedNone(text, headings) ==
    \A heading \in headings :
        /\ Count(text, heading) = 1
        /\ BodyUnder(text, heading) \in {<<"_None_">>, <<"_None_\n">>}

\* C13: the Status document and every Daily entry rendered from a record whose
\* sequence fields are all empty hold every fixed section heading, the Status and
\* Phase headings included, and the body of each list section is the 'none'
\* marker
C13_EmptySectionsMarked ==
    /\ Exists(status, "Foo") =>
          /\ AllMarkedNone(status["Foo"].text, StatusListHeadings)
          /\ BodyUnder(status["Foo"].text, "## Status\n") # <<>>
          /\ BodyUnder(status["Foo"].text, "## Phase\n") # <<>>
    /\ Exists(LogDir(daily, "Foo"), "2026-02-06") =>
          \A k \in 2..Len(split(daily["Foo"]["2026-02-06"], EntrySeparator)) :
              AllMarkedNone(split(daily["Foo"]["2026-02-06"], EntrySeparator)[k],
                            DailyListHeadings)

\* a Status document and a Daily entry were written from the record with nothing
\* in it
C13_Witness ==
    /\ Len(calls) = 2
    /\ calls[1].op = "write_status" /\ calls[1].extract = EmptyExtract
    /\ calls[2].op = "write_daily" /\ calls[2].extract = EmptyExtract
    /\ Contains(status["Foo"].text, "## Decisions\n_None_")

\* ---------------------------------------------------------------------------
\* A run of the command: main, _process_session and VaultWriter.update
\* ---------------------------------------------------------------------------

\* what the Claude CLI gave back: the subprocess ran out of time or ended with
\* a return code, and its output holds a JSON object (data) or does not
CliResult(timeout, returncode, parsable, data) ==
    [timeout |-> timeout, returncode |-> returncode, parsable |-> parsable,
     data |-> data]

\* extract_with_claude without the test of the return code (a faulty variant)
extract_with_claude_unchecked(result) ==
    IF result.timeout THEN [raised |-> "TimeoutExpired", extract |-> EmptyExtract]
    ELSE IF ~result.parsable THEN [raised |-> "ValueError", extract |-> EmptyExtract]
    ELSE [raised |-> "", extract |-> result.data]

\* extractor.py 152-212: the exception raised (or "") and the record returned
extract_with_claude(result) ==
    IF result.timeout THEN [raised |-> "TimeoutExpired", extract |-> EmptyExtract]
    ELSE IF result.returncode # 0
    THEN [raised |-> "RuntimeError", extract |-> EmptyExtract]
    ELSE IF ~result.parsable THEN [raised |-> "ValueError", extract |-> EmptyExtract]
    ELSE [raised |-> "", extract |-> result.data]

\* the CLI call did not give a record
Failed(result) == result.timeout \/ result.returncode # 0 \/ ~result.parsable

\* the documents a run of update may write
VaultDocuments == [status |-> status, daily |-> daily, dashboard |-> dashboard]

\* the process after the project at the head of its list is finished with
Advance(p) ==
    [p EXCEPT !.queue = Tail(@),
              !.pc = IF Tail(p.queue) = <<>> THEN "done" ELSE "process"]

\* line 206: an exception out of _process_session that nothing catches ends
\* the process
Uncaught(p, name, raised) ==
    [p EXCEPT !.pc = "crashed", !.exit = 1,
              !.stderr = Append(@, "Traceback: " \o raised)]

\* the all-projects loop without its handler (a faulty variant)
RaiseUncaught(p, name, raised) == Uncaught(p, name, raised)

\* __main__.py 187-191 and 206: the all-projects loop catches the exception,
\* reports it and goes on; the single-session call lets it end the process
Raise(p, name, raised) ==
    IF p.mode = "all_projects"
    THEN [Advance(p) EXCEPT
            !.stderr = Append(@, "  Error processing " \o name \o ": " \o raised)]
    ELSE Uncaught(p, name, raised)

\* main up to the first _process_session: the mode, and the sessions found
main(mode, dry_run, recent, found) ==
    /\ "main" \notin DOMAIN procs
    /\ procs' = [name \in {"main"} |->
          [mode |-> mode,
           dry_run |-> dry_run,
           recent |-> IF found THEN recent ELSE <<>>,
           queue |-> IF found THEN recent ELSE <<>>,
           pc |-> IF found /\ recent # <<>> THEN "process" ELSE "done",
           exit |-> IF found THEN 0 ELSE 1,
           stderr |-> IF found THEN <<>> ELSE <<"Error: no session log">>,
           attempts |-> <<>>,
           extract |-> EmptyExtract,
           before |-> VaultDocuments]]
    /\ UNCHANGED <<projdirs, status, daily, weekly, monthly, dashboard, agg, calls>>

\* the process at the call of the CLI for the session at the head of its list
Attempting(p, result) ==
    [p EXCEPT !.attempts = Append(@, [name |-> Head(p.queue), result |-> result]),
              !.before = VaultDocuments]

\* _process_session up to the writer, lines 109-134: the record drawn is the
\* one the commits of the day were put into; a dry run ends here
_process_session(result) ==
    /\ "main" \in DOMAIN procs
    /\ procs["main"].pc = "process"
    /\ procs' = [procs EXCEPT !["main"] =
          IF extract_with_claude(result).raised # ""
          THEN Raise(Attempting(@, result), Head(@.queue),
                     extract_with_claude(result).raised)
          ELSE IF @.dry_run
          THEN Advance(Attempting(@, result))
          ELSE [Attempting(@, result) EXCEPT
                  !.extract = extract_with_claude(result).extract,
                  !.pc = "write_status"]]
    /\ UNCHANGED <<projdirs, status, daily, weekly, monthly, dashboard, agg, calls>>

\* update, vault_writer.py 166-175, one document at a time
UpdateStatus ==
    /\ "main" \in DOMAIN procs
    /\ procs["main"].pc = "write_status"
    /\ write_status(Head(procs["main"].queue), procs["main"].extract)
    /\ procs' = [procs EXCEPT !["main"].pc = "write_daily"]

UpdateDaily ==
    /\ "main" \in DOMAIN procs
    /\ procs["main"].pc = "write_daily"
    /\ write_daily(Head(procs["main"].queue), procs["main"].extract, NowDate)
    /\ procs' = [procs EXCEPT !["main"].pc = "write_dashboard"]

UpdateDashboard ==
    /\ "main" \in DOMAIN procs
    /\ procs["main"].pc = "write_dashboard"
    /\ write_dashboard
    /\ procs' = [procs EXCEPT !["main"] = Advance(@)]

MaxRecent == 2

\* the lists list_recent_projects may return
RecentLists == UNION {[1..n -> Projects] : n \in 0..MaxRecent}

CliResults ==
    {CliResult(FALSE, 0, TRUE, RecA), CliResult(FALSE, 0, TRUE, EmptyExtract),
     CliResult(FALSE, 1, TRUE, RecA), CliResult(TRUE, 0, FALSE, EmptyExtract),
     CliResult(FALSE, 0, FALSE, EmptyExtract)}

MainCall ==
    \/ \E recent \in RecentLists, dry_run \in BOOLEAN :
          main("all_projects", dry_run, recent, TRUE)
    \/ \E name \in Projects, dry_run, found \in BOOLEAN :
          main("single", dry_run, <<name>>, found)

ProcessCall == \E result \in CliResults : _process_session(result)

NextRun == MainCall \/ ProcessCall \/ UpdateStatus \/ UpdateDaily \/ UpdateDashboard

SpecRun == EmptyVault /\ [][NextRun]_vars

\* the CLI result of the session the run processed last
LastAttempt == procs["main"].attempts[Len(procs["main"].attempts)].result

\* C14: when the extraction call of a session fails (the CLI timed out, ended
\* with a non-zero return code, or gave output with no JSON object in it), the
\* Status documents, the Daily documents and the Dashboard are what they were
\* when the processing of that session began
C14_FailedExtractionWritesNothing ==
    ("main" \in DOMAIN procs /\ procs["main"].attempts # <<>>
        /\ Failed(LastAttempt)) =>
            VaultDocuments = procs["main"].before

\* the extraction of the second session failed after the first session had
\* written its documents
C14_Witness ==
    /\ "main" \in DOMAIN procs
    /\ Len(procs["main"].attempts) = 2
    /\ ~Failed(procs["main"].attempts[1].result)
    /\ Failed(procs["main"].attempts[2].result)
    /\ ~procs["main"].dry_run
    /\ procs["main"].pc = "done"
    /\ Exists(dashboard, "DASHBOARD.md")

\* the lines the all-projects loop prints to the error stream for the attempts
\* that raised
Reports(attempts) ==
    Map(LAMBDA a : "  Error processing " \o a.name \o ": "
                       \o extract_with_claude(a.result).raised,
        Filter(LAMBDA a : Failed(a.result), attempts))

\* C15: an all-projects run never ends on a failed extraction: each failure
\* is reported on the error stream with the name of its project, and when the run
\* returns every project of the list has been processed, in order; a
\* single-session run whose extraction failed has ended with the exception
C15_FailureCaughtPerProject ==
    "main" \in DOMAIN procs =>
        /\ procs["main"].mode = "all_projects" =>
              /\ procs["main"].pc # "crashed"
              /\ procs["main"].stderr = Reports(procs["main"].attempts)
              /\ procs["main"].pc = "done" =>
                    [k \in 1..Len(procs["main"].attempts) |->
                        procs["main"].attempts[k].name] = procs["main"].recent
        /\ (/\ procs["main"].mode = "single"
            /\ procs["main"].attempts # <<>>
            /\ Failed(LastAttempt)) =>
                /\ procs["main"].pc = "crashed"
                /\ procs["main"].exit = 1

\* the extraction of the first project failed and the second project's documents
\* were written all the same
C15_Witness ==
    /\ "main" \in DOMAIN procs
    /\ procs["main"].mode = "all_projects"
    /\ procs["main"].recent = <<"Foo", "Bar">>
    /\ procs["main"].pc = "done"
    /\ Len(procs["main"].attempts) = 2
    /\ Failed(procs["main"].attempts[1].result)
    /\ Len(procs["main"].stderr) = 1
    /\ DOMAIN status = {"Bar"}

\* ---------------------------------------------------------------------------
\* write_daily as the file operations it makes, by writer processes that share
\* the vault
\* ---------------------------------------------------------------------------

Writers == {"w1", "w2"}

\* a writer that is not in a call; raced tells whether a call of its was ever
\* under way at the same time as a call of another writer
Idle(raced) ==
    [pc |-> "idle", project |-> "", date |-> "", extract |-> EmptyExtract,
     exists |-> FALSE, raced |-> raced]

Active(w) == procs[w].pc # "idle"

NoneActive == \A w \in Writers : ~Active(w)

\* a test for the file that never finds it (a faulty variant)
path_exists_never(log_dir, date) == FALSE

\* line 63: path.exists()
path_exists(log_dir, date) == Exists(log_dir, date)

\* the header written whatever the test found (a faulty variant)
WriteHeaderRegardless(log_dir, date, exists) ==
    WriteText(log_dir, date, render_daily_header(date))

\* lines 63-64: write_text of the header when the test did not find the file
WriteHeader(log_dir, date, exists) ==
    IF ~exists THEN WriteText(log_dir, date, render_daily_header(date))
    ELSE log_dir

\* lines 59-63: the date, the directory, and the test for the file
DailyBegin(w, project_name, extract, date) ==
    /\ ~Active(w)
    /\ projdirs' = projdirs \cup {project_name}
    /\ daily' = WriteText(daily, project_name, LogDir(daily, project_name))
    /\ procs' = [v \in Writers |->
          IF v = w
          THEN [pc |-> "header", project |-> project_name,
                date |-> Or(date, NowDate), extract |-> extract,
                exists |-> path_exists(LogDir(daily, project_name),
                                       Or(date, NowDate)),
                raced |-> procs[w].raced \/ ~NoneActive]
          ELSE [procs[v] EXCEPT !.raced = @ \/ Active(v)]]
    /\ UNCHANGED <<status, weekly, monthly, dashboard, agg, calls>>

\* lines 63-64: the header, or nothing
DailyHeader(w) ==
    /\ procs[w].pc = "header"
    /\ daily' = WriteText(daily, procs[w].project,
                    WriteHeader(LogDir(daily, procs[w].project), procs[w].date,
                                procs[w].exists))
    /\ procs' = [procs EXCEPT ![w].pc = "append"]
    /\ UNCHANGED <<projdirs, status, weekly, monthly, dashboard, agg, calls>>

\* lines 66-70: the entry rendered and appended
DailyAppend(w) ==
    /\ procs[w].pc = "append"
    /\ daily' = WriteText(daily, procs[w].project,
                    AppendText(LogDir(daily, procs[w].project), procs[w].date,
                               render_daily_entry(procs[w].project,
                                                  procs[w].extract, NowTime)))
    /\ calls' = Append(calls, Call("write_daily", procs[w].project,
                                   procs[w].extract, procs[w].date))
    /\ procs' = [procs EXCEPT ![w] = Idle(@.raced)]
    /\ UNCHANGED <<projdirs, status, weekly, monthly, dashboard, agg>>

WritersIdle ==
    /\ projdirs = {}
    /\ status = EmptyDir
    /\ daily = EmptyDir
    /\ weekly = EmptyDir
    /\ monthly = EmptyDir
    /\ dashboard = EmptyDir
    /\ agg = [files |-> <<>>, acc |-> NoItems, ret |-> NoItems]
    /\ calls = <<>>
    /\ procs = [w \in Writers |-> Idle(FALSE)]

\* the calls under way
ActiveWriters == {w \in Writers : Active(w)}

RaceRecords == {EmptyExtract, RecA}

MaxRaceOps == 3

\* writers that nothing keeps apart
RaceBegin ==
    /\ Len(calls) + Cardinality(ActiveWriters) < MaxRaceOps
    /\ \E w \in Writers, r \in RaceRecords : DailyBegin(w, "Foo", r, "2026-02-06")

RaceHeader == \E w \in Writers : DailyHeader(w)

RaceAppend == \E w \in Writers : DailyAppend(w)

NextRace == RaceBegin \/ RaceHeader \/ RaceAppend

SpecRace == WritersIdle /\ [][NextRace]_vars

MaxSerialOps == 3

SerialDates == {"2026-02-06", ""}

\* one writer at a time: a call begins when no call is under way
SerialBegin ==
    /\ NoneActive
    /\ Len(calls) < MaxSerialOps
    /\ \E w \in Writers, r \in RaceRecords, d \in SerialDates :
          DailyBegin(w, "Foo", r, d)

SerialHeader == \E w \in Writers : DailyHeader(w)

SerialAppend == \E w \in Writers : DailyAppend(w)

\* the other operations of the pipeline, between the calls of write_daily
SerialOther ==
    /\ NoneActive
    /\ Len(calls) < MaxSerialOps
    /\ \/ write_status("Foo", RecA)
       \/ write_dashboard
       \/ generate_weekly("Foo", "2026-W06")
       \/ generate_monthly("Foo", "2026-02")
    /\ UNCHANGED procs

NextSerial == SerialBegin \/ SerialHeader \/ SerialAppend \/ SerialOther

SpecSerial == WritersIdle /\ [][NextSerial]_vars

\* the state of the Daily document of a project and a date
DailyState(tree, project_name, date) ==
    IF ~Exists(LogDir(tree, project_name), date) THEN "absent"
    ELSE IF tree[project_name][date] = render_daily_header(date)
    THEN "header-written"
    ELSE IF /\ IsPrefix(render_daily_header(date), tree[project_name][date])
            /\ Count(tree[project_name][date], "# Daily Log: ") = 1
            /\ Count(tree[project_name][date], EntrySeparator) >= 1
    THEN "has-entries"
    ELSE "malformed"

\* a document stays in its state or moves to the next one
Forward ==
    {<<"absent", "absent">>, <<"absent", "header-written">>,
     <<"header-written", "header-written">>, <<"header-written", "has-entries">>,
     <<"has-entries", "has-entries">>}

\* C16: with one writer at a time, every step of write_daily and of the other
\* operations leaves each Daily document in its state or moves it one state on
\* (absent, header-written, has-entries); the header is written by a call that
\* found the document absent, before any entry was appended for that date, and
\* is never written again: it stays the beginning of the document and occurs
\* once in it
C16_DailyMovesForward ==
    [][\A date \in {"2026-02-06", NowDate} :
          /\ <<DailyState(daily, "Foo", date), DailyState(daily', "Foo", date)>>
                \in Forward
          /\ (/\ DailyState(daily, "Foo", date) = "absent"
              /\ DailyState(daily', "Foo", date) = "header-written") =>
                 /\ AppendsTo(date) = <<>>
                 /\ \E w \in Writers :
                       /\ procs[w].pc = "header" /\ procs[w].date = date
                       /\ ~procs[w].exists]_vars

\* one document has two entries, and a call for another date has written that
\* document's header and not yet its entry
C16_Witness ==
    /\ Len(calls) = 2
    /\ calls[1].op = "write_daily" /\ calls[2].op = "write_daily"
    /\ DailyState(daily, "Foo", "2026-02-06") = "has-entries"
    /\ Count(daily["Foo"]["2026-02-06"], EntrySeparator) = 2
    /\ DailyState(daily, "Foo", NowDate) = "header-written"
    /\ \E w \in Writers : procs[w].pc = "append" /\ procs[w].date = NowDate

\* the entry that the i-th call appended is not in its Daily document
EntryLostOf(i) ==
    /\ calls[i].op = "write_daily"
    /\ ~Contains(LogDir(daily, calls[i].project)[calls[i].key],
                 render_daily_entry(calls[i].project, calls[i].extract,
                                    TimeOfCall(i)))

EntryLost == \E i \in 1..Len(calls) : EntryLostOf(i)

\* C17: writers that nothing keeps apart can lose an entry, and only they can:
\* whenever an entry that a call of write_daily appended is no longer in its Daily
\* document, two calls of write_daily were under way at the same time; as long
\* as every call began with no other call under way, every appended entry is in
\* its document
C17_EntryLostOnlyByOverlap ==
    EntryLost => \E w \in Writers : procs[w].raced

\* both writers found the document absent; the first wrote the header and its
\* entry, then the second wrote the header over them
C17_Witness ==
    /\ Len(calls) >= 1
    /\ EntryLostOf(1)
    /\ \A w \in Writers : procs[w].raced

\* ---------------------------------------------------------------------------
\* config.py: load_config
\* ---------------------------------------------------------------------------

HomeDir == "/home/u"

\* dict.get(key), None taken as "" (both are false in an or-chain)
Get(dict, key) == IF key \in DOMAIN dict THEN dict[key] ELSE ""

\* dict.get(key, default)
GetOr(dict, key, default) == IF key \in DOMAIN dict THEN dict[key] ELSE default

\* toml.get(section, {})
Section(toml, section) == GetOr(toml, section, [k \in {} |-> ""])

\* os.path.expanduser, for the user that runs the command
expanduser(path) ==
    IF path = "~" THEN HomeDir
    ELSE IF startswith(path, "~/") THEN HomeDir \o SubSeq(path, 2, Len(path))
    ELSE path

\* config.py 39-48
_platform_default_vault(system) ==
    IF system = "Darwin"
    THEN HomeDir \o "/Library/Mobile Documents/iCloud~md~obsidian/Documents/MyVault"
    ELSE IF system = "Windows" THEN HomeDir \o "/Documents/ObsidianVault"
    ELSE HomeDir \o "/obsidian/MyVault"

\* config.py 59-95: environ is os.environ, toml what _load_toml returned ({} when
\* there is no config file), system what platform.system() returned
load_config(environ, toml, system) ==
    [vault_path |->
        expanduser(Or(Get(environ, "OBSIDIAN_VAULT_PATH"),
                      Or(Get(Section(toml, "vault"), "path"),
                         _platform_default_vault(system)))),
     claude_projects_path |->
        expanduser(Or(Get(environ, "CLAUDE_PROJECTS_PATH"),
                      Or(Get(Section(toml, "claude"), "projects_path"),
                         HomeDir \o "/.claude/projects"))),
     projects_folder |-> GetOr(Section(toml, "vault"), "projects_folder", "Projects"),
     extraction_model |-> GetOr(Section(toml, "extraction"), "model", "haiku"),
     max_conversation_chars |->
        GetOr(Section(toml, "extraction"), "max_conversation_chars", 50000)]

\* main, line 151: the configuration the run works with
LoadConfig(environ, toml, system) ==
    /\ "main" \notin DOMAIN procs
    /\ procs' = [name \in {"main"} |->
          [environ |-> environ, toml |-> toml, system |-> system,
           config |-> load_config(environ, toml, system)]]
    /\ UNCHANGED <<projdirs, status, daily, weekly, monthly, dashboard, agg, calls>>

\* a dict with the keys of keys that values gives a value other than "unset"
Dict(keys, values) ==
    [k \in {key \in keys : values[key] # "unset"} |-> values[k]]

EnvNames == {"OBSIDIAN_VAULT_PATH", "CLAUDE_PROJECTS_PATH"}

Environs ==
    {Dict(EnvNames, v) :
        v \in [EnvNames -> {"unset", "", "/env/place", "~/env"}]}

VaultSections ==
    {Dict({"path", "projects_folder"}, v) :
        v \in [{"path", "projects_folder"} -> {"unset", "", "/toml/place", "~/toml"}]}

ClaudeSections ==
    {Dict({"projects_path"}, v) : v \in [{"projects_path"} -> {"unset", "/toml/claude"}]}

ExtractionSections ==
    {[k \in {} |-> ""], [model |-> "sonnet", max_conversation_chars |-> 20000]}

\* what config.toml may hold; the first is what _load_toml gives with no file
Tomls ==
    {[k \in {} |-> ""]}
    \cup {[vault |-> v] : v \in VaultSections}
    \cup {[vault |-> v, claude |-> c, extraction |-> e] :
            v \in VaultSections, c \in ClaudeSections, e \in ExtractionSections}

Systems == {"Darwin", "Windows", "Linux"}

ConfigCall ==
    \E environ \in Environs, toml \in Tomls, system \in Systems :
        LoadConfig(environ, toml, system)

NextConfig == ConfigCall

SpecConfig == EmptyVault /\ [][NextConfig]_vars

\* whether the dict gives key a value that counts as set
IsSet(dict, key) == Get(dict, key) # ""

\* C18: the vault path that load_config returns is the [vault] path of
\* config.toml when the file gives one, also when OBSIDIAN_VAULT_PATH is set;
\* the environment variable when the file gives none; and the platform default
\* when neither is set
C18_ConfigFileFirst ==
    "main" \in DOMAIN procs =>
        procs["main"].config.vault_path =
            expanduser(
                IF IsSet(Section(procs["main"].toml, "vault"), "path")
                THEN Section(procs["main"].toml, "vault")["path"]
                ELSE IF IsSet(procs["main"].environ, "OBSIDIAN_VAULT_PATH")
                THEN procs["main"].environ["OBSIDIAN_VAULT_PATH"]
                ELSE _platform_default_vault(procs["main"].system))

\* ---------------------------------------------------------------------------
\* The section readers: mcp-server/tools/vault_status.py and
\* daily-standup/standup.py
\* ---------------------------------------------------------------------------

UpperCase == "ABCDEFGHIJKLMNOPQRSTUVWXYZ"

LowerCase == "abcdefghijklmnopqrstuvwxyz"

LowerOf ==
    [c \in {Char(UpperCase, i) : i \in 1..Len(UpperCase)} |->
        Char(LowerCase, Find(UpperCase, c, 1))]

LowerChar(c) == IF c \in DOMAIN LowerOf THEN LowerOf[c] ELSE c

\* str.lower()
RECURSIVE lower(_)
lower(s) ==
    IF Len(s) = 0 THEN ""
    ELSE IF Len(s) = 1 THEN LowerChar(s)
    ELSE lower(SubSeq(s, 1, Len(s) \div 2))
         \o lower(SubSeq(s, (Len(s) \div 2) + 1, Len(s)))

\* the first place at or after from that holds no white space, Len(line) + 1
\* when there is none: where \s* ends
RECURSIVE SkipSpaces(_, _)
SkipSpaces(line, from) ==
    IF from > Len(line) \/ Char(line, from) \notin Whitespace THEN from
    ELSE SkipSpaces(line, from + 1)

\* line[at - 1:] starts with word, letter case aside; word in lower case
WordAt(line, at, word) ==
    /\ at + Len(word) - 1 <= Len(line)
    /\ lower(SubSeq(line, at, at + Len(word) - 1)) = word

\* re.match(r"\s+" + word, line[from - 1:], re.I), word in lower case
SpacesThen(line, from, word) ==
    /\ SkipSpaces(line, from) > from
    /\ WordAt(line, SkipSpaces(line, from), word)

\* re.match(r"^##\s+", line)
IsH2(line) == startswith(line, "##") /\ SkipSpaces(line, 3) > 3

\* re.match(r"^##\s+<word>", line, re.I)
MatchH2(line, word) == startswith(line, "##") /\ SpacesThen(line, 3, word)

\* re.match(r"^##\s+Next\s+Steps", line, re.I)
IsNextStepsHead(line) ==
    /\ MatchH2(line, "next")
    /\ SpacesThen(line, SkipSpaces(line, 3) + 4, "steps")

\* re.match(r"^##\s+Blockers?", line, re.I)
IsBlockersHead(line) == MatchH2(line, "blocker")

\* re.match(r"^##\s+Recent\s+Activity", line, re.I)
IsRecentActivityHead(line) ==
    /\ MatchH2(line, "recent")
    /\ SpacesThen(line, SkipSpaces(line, 3) + 6, "activity")

\* group(1) of r"\s+(.+)$" matched at from: <<>> when there is no match.  \s+
\* takes the white space and gives back its last character when nothing follows
TextAfterSpaces(line, from) ==
    IF SkipSpaces(line, from) = from THEN <<>>
    ELSE IF SkipSpaces(line, from) <= Len(line)
    THEN <<SubSeq(line, SkipSpaces(line, from), Len(line))>>
    ELSE IF Len(line) - from + 1 >= 2 THEN <<Char(line, Len(line))>>
    ELSE <<>>

\* re.match(r"^-\s+(.+)$", line): <<group(1).strip()>> or <<>>
BulletText(line) ==
    IF startswith(line, "-") THEN Map(strip, TextAfterSpaces(line, 2)) ELSE <<>>

\* re.match(r"^-\s+\[([marks])\]\s+(.+)$", line): <<[done, text]>> or <<>>
CheckboxItem(line, marks) ==
    IF /\ startswith(line, "-")
       /\ SkipSpaces(line, 2) > 2
       /\ StartsWithAt(line, "[", SkipSpaces(line, 2))
       /\ SkipSpaces(line, 2) + 2 <= Len(line)
       /\ Char(line, SkipSpaces(line, 2) + 1) \in marks
       /\ Char(line, SkipSpaces(line, 2) + 2) = "]"
    THEN Map(LAMBDA text : [done |-> Char(line, SkipSpaces(line, 2) + 1) = "x",
                            text |-> strip(text)],
             TextAfterSpaces(line, SkipSpaces(line, 2) + 3))
    ELSE <<>>

\* re.match(r"^-\s+([^\[].+)$", line): <<group(1).strip()>> or <<>>.  \s+ gives
\* back white space for [^\[] when what follows starts with "[" or is one
\* character long
SimpleText(line) ==
    IF ~(startswith(line, "-") /\ SkipSpaces(line, 2) > 2) THEN <<>>
    ELSE IF SkipSpaces(line, 2) <= Len(line)
    THEN (IF \/ (/\ Char(line, SkipSpaces(line, 2)) # "["
                 /\ SkipSpaces(line, 2) < Len(line))
             \/ SkipSpaces(line, 2) >= 4
          THEN <<strip(SubSeq(line, SkipSpaces(line, 2), Len(line)))>>
          ELSE <<>>)
    ELSE IF Len(line) >= 4 THEN <<"">>
    ELSE <<>>

\* text.lower() not in ("none", "(none)", "n/a")
NotSentinel(text) == lower(text) \notin {"none", "(none)", "n/a"}

\* [1, ..., n]
Indices(n) == [i \in 1..n |-> i]

\* vault_status.py 36-52: the section a line is read in, "" for none and for the
\* headings themselves
SectionName(line) ==
    IF MatchH2(line, "status") THEN "status"
    ELSE IF IsNextStepsHead(line) THEN "next_steps"
    ELSE IF IsBlockersHead(line) THEN "blockers"
    ELSE IF IsRecentActivityHead(line) THEN "recent_activity"
    ELSE ""

\* the lines that are "## " headings, as places in lines
Heads(lines) == {i \in 1..Len(lines) : IsH2(lines[i])}

\* the heading that the line at place i is read under, 0 for none
HeadBefore(heads, i) == Max({j \in heads : j < i} \cup {0})

\* the lines read in the section (current_section == section), in order; named
\* are the headings that open it
LinesUnder(lines, heads, named) ==
    Map(LAMBDA i : lines[i],
        Filter(LAMBDA i : i \notin heads /\ HeadBefore(heads, i) \in named,
               Indices(Len(lines))))

LinesOf(lines, heads, section) ==
    LinesUnder(lines, heads, {h \in heads : SectionName(lines[h]) = section})

LinesIn(lines, section) == LinesOf(lines, Heads(lines), section)

\* items[:1]
FirstOf(items) == IF items = <<>> THEN <<>> ELSE <<items[1]>>

\* vault_status.py 35-76, on the lines of STATUS.md
StatusOfLines(lines) ==
    [error |-> "",
     status |-> FirstOf(Map(strip, Filter(LAMBDA line : strip(line) # "",
                                          LinesIn(lines, "status")))),
     next_steps |-> Flatten(Map(LAMBDA line : CheckboxItem(line, {"x", " "}),
                                LinesIn(lines, "next_steps"))),
     blockers |-> Filter(NotSentinel,
                         Flatten(Map(BulletText, LinesIn(lines, "blockers")))),
     recent_activity |-> Flatten(Map(BulletText, LinesIn(lines, "recent_activity")))]

\* vault_status.py 10-76: project is the name of a directory under Projects
vault_status(project) ==
    IF ~Exists(status, project)
    THEN [error |-> "STATUS.md not found for project '" \o project \o "'",
          status |-> <<>>, next_steps |-> <<>>, blockers |-> <<>>,
          recent_activity |-> <<>>]
    ELSE StatusOfLines(Lines(status[project].text))

\* standup.py 63-74 and 87-99: the lines after the first one that opens the
\* section, up to the first "## " line that does not open it, without the
\* lines that open it
SectionEnd(lines, opens(_), start) ==
    Min({j \in (start + 1)..Len(lines) : IsH2(lines[j]) /\ ~opens(lines[j])}
        \cup {Len(lines) + 1})

SectionLinesFrom(lines, opens(_), start) ==
    Filter(LAMBDA line : ~opens(line),
           SubSeq(lines, start + 1, SectionEnd(lines, opens, start) - 1))

SectionLines(lines, opens(_)) ==
    IF \A i \in 1..Len(lines) : ~opens(lines[i]) THEN <<>>
    ELSE SectionLinesFrom(lines, opens,
                          Min({i \in 1..Len(lines) : opens(lines[i])}))

\* standup.py 54-75
get_next_steps_v2(project) ==
    IF ~Exists(status, project) THEN <<>>
    ELSE Map(LAMBDA item : item.text,
             Flatten(Map(LAMBDA line : CheckboxItem(line, {" "}),
                         SectionLines(Lines(status[project].text),
                                      IsNextStepsHead))))

\* standup.py 78-101
get_blockers_v2(project) ==
    IF ~Exists(status, project) THEN <<>>
    ELSE Filter(NotSentinel,
                Flatten(Map(BulletText,
                            SectionLines(Lines(status[project].text),
                                         IsBlockersHead))))

\* standup.py 127: the line opens the completed section
IsCompletedHead(line) ==
    WordAt(line, 1, "**completed**:") \/ MatchH2(line, "completed")

\* standup.py 130: the line ends the completed section
EndsCompleted(line) == startswith(line, "**") \/ startswith(line, "##")

\* the first line after start that ends the section, as a place in lines
CompletedEnd(lines, start) ==
    Min({j \in (start + 1)..Len(lines) :
            EndsCompleted(lines[j]) /\ ~IsCompletedHead(lines[j])}
        \cup {Len(lines) + 1})

\* standup.py 125-139: the items of one Daily document; the loop over its lines
\* stops at the first line that ends the section
CompletedFrom(lines, start) ==
    Flatten(Map(LAMBDA line : Map(LAMBDA item : item.text,
                                  CheckboxItem(line, {"x"}))
                              \o SimpleText(line),
                Filter(LAMBDA line : ~IsCompletedHead(line),
                       SubSeq(lines, start + 1, CompletedEnd(lines, start) - 1))))

CompletedOfLines(lines) ==
    IF \A i \in 1..Len(lines) : ~IsCompletedHead(lines[i]) THEN <<>>
    ELSE CompletedFrom(lines, Min({i \in 1..Len(lines) : IsCompletedHead(lines[i])}))

\* re.match(r'^\d{4}-\d{2}-\d{2}$', date_str)
IsDateStem(stem) ==
    /\ Len(stem) = 10
    /\ \A i \in {1, 2, 3, 4, 6, 7, 9, 10} : IsDigit(Char(stem, i))
    /\ Char(stem, 5) = "-" /\ Char(stem, 8) = "-"

\* standup.py 104-140
get_completed_items_v2(project, since_date) ==
    Flatten(Map(LAMBDA stem : CompletedOfLines(Lines(daily[project][stem])),
                Filter(LAMBDA stem : IsDateStem(stem) /\ ~StrLess(stem, since_date),
                       SortedStems(LogDir(daily, project)))))

\* standup.py 47-49
is_v2_vault(project) == Exists(status, project) \/ Exists(daily, project)

\* standup.py 360-384: what main gathers for the projects of the vault, all of
\* them in the v2 layout; at is the number of writer calls made before
standup(since_date) ==
    [at |-> Len(calls), since |-> since_date,
     completed |-> [p \in projdirs |-> get_completed_items_v2(p, since_date)],
     next_steps |-> [p \in projdirs |-> get_next_steps_v2(p)],
     blockers |-> [p \in projdirs |-> get_blockers_v2(p)]]

\* a STATUS.md in the layout the readers look for, found in the vault
FoundStatus ==
    "# Foo\n\n## Status\nActive\n\n## Next Steps\n- [ ] Ship it\n- [ ] N/A\n"
    \o "\n## Blockers\n- None\n### Infra\n- Disk full\n"
    \o "\n## Recent Activity\n- (none)\n- Merged the parser\n"

VaultFound ==
    /\ \/ projdirs = {} /\ status = EmptyDir
       \/ /\ projdirs = {"Foo"}
          /\ status = WriteText(EmptyDir, "Foo",
                                [text |-> FoundStatus, mtime |-> "2026-03-01"])
    /\ daily = EmptyDir
    /\ weekly = EmptyDir
    /\ monthly = EmptyDir
    /\ dashboard = EmptyDir
    /\ agg = [files |-> <<>>, acc |-> NoItems, ret |-> NoItems]
    /\ calls = <<>>
    /\ procs = NoProcs

\* a record whose blockers are the word the extraction gives for 'nothing'
RecNone == [RecA EXCEPT !.blockers = <<"None">>, !.next_steps = <<"n/a">>]

ReadRecords == {RecA, RecB, RecNone}

SinceDates == {"2026-02-01", "2026-03-01"}

MaxReadOps == 2

ReadStatusWrite ==
    /\ Len(calls) < MaxReadOps
    /\ \E r \in ReadRecords : write_status("Foo", r)
    /\ UNCHANGED procs

ReadDailyWrite ==
    /\ Len(calls) < MaxReadOps
    /\ \E r \in ReadRecords : write_daily("Foo", r, "2026-02-06")
    /\ UNCHANGED procs

\* the MCP tool, called for a project
VaultStatusCall ==
    /\ \E p \in Projects :
          procs' = [name \in {"vault_status"} |->
                       [at |-> Len(calls), project |-> p,
                        result |-> vault_status(p)]]
    /\ UNCHANGED <<projdirs, status, daily, weekly, monthly, dashboard, agg, calls>>

\* the standup command; with no project directory it ends before it reads
StandupCall ==
    /\ projdirs # {}
    /\ \A p \in projdirs : is_v2_vault(p)
    /\ \E since_date \in SinceDates :
          procs' = [name \in {"standup"} |-> standup(since_date)]
    /\ UNCHANGED <<projdirs, status, daily, weekly, monthly, dashboard, agg, calls>>

NextRead == ReadStatusWrite \/ ReadDailyWrite \/ VaultStatusCall \/ StandupCall

SpecRead == VaultFound /\ [][NextRead]_vars

\* the number of "#" characters that line begins with, from place i on
RECURSIVE LeadingHashes(_, _)
LeadingHashes(line, i) ==
    IF i <= Len(line) /\ Char(line, i) = "#" THEN 1 + LeadingHashes(line, i + 1)
    ELSE 0

\* the level of a heading line ("#" is 1, "##" is 2, ...), 0 for other lines
HeadingLevel(line) ==
    IF /\ LeadingHashes(line, 1) \in 1..6
       /\ \/ Len(line) = LeadingHashes(line, 1)
          \/ Char(line, LeadingHashes(line, 1) + 1) \in Whitespace
    THEN LeadingHashes(line, 1)
    ELSE 0

\* the lines of the section that the heading at place start opens: up to the
\* next heading of the same or a shallower level, or the end
Captured(lines, start) ==
    SubSeq(lines, start + 1,
           Min({j \in (start + 1)..Len(lines) :
                   HeadingLevel(lines[j]) \in 1..HeadingLevel(lines[start])}
               \cup {Len(lines) + 1}) - 1)

\* the section that the first line satisfying opens opens, <<>> without one
CapturedUnder(lines, opens(_)) ==
    IF \A i \in 1..Len(lines) : ~opens(lines[i]) THEN <<>>
    ELSE Captured(lines, Min({i \in 1..Len(lines) : opens(lines[i])}))

\* the completed items and the blockers among lines, as the readers take items
CompletedItemsIn(lines) ==
    Flatten(Map(LAMBDA line : Map(LAMBDA item : item.text,
                                  CheckboxItem(line, {"x"}))
                              \o SimpleText(line),
                lines))

BlockerItemsIn(lines) == Filter(NotSentinel, Flatten(Map(BulletText, lines)))

\* a reader ran and no writer call was made since
Fresh(tool) == tool \in DOMAIN procs /\ procs[tool].at = Len(calls)

\* C19: what the readers return for a section is what lies between its heading
\* and the next heading of the same or a shallower level: the completed items
\* the standup reader returns for a Daily document are those of its 'Completed'
\* section, the ones under deeper '### group' sub-headings included, and the
\* blockers both readers return are those of the 'Blockers' section of the
\* Status document
C19_CaptureEndsAtSameOrShallower ==
    /\ (/\ Fresh("standup")
        /\ procs["standup"].since = "2026-02-01"
        /\ Exists(LogDir(daily, "Foo"), "2026-02-06")) =>
            procs["standup"].completed["Foo"] =
                CompletedItemsIn(CapturedUnder(Lines(daily["Foo"]["2026-02-06"]),
                                               IsCompletedHead))
    /\ (Fresh("standup") /\ Exists(status, "Foo")) =>
            procs["standup"].blockers["Foo"] =
                BlockerItemsIn(CapturedUnder(Lines(status["Foo"].text),
                                             IsBlockersHead))
    /\ (/\ Fresh("vault_status")
        /\ procs["vault_status"].project = "Foo"
        /\ Exists(status, "Foo")) =>
            procs["vault_status"].result.blockers =
                BlockerItemsIn(CapturedUnder(Lines(status["Foo"].text),
                                             IsBlockersHead))

\* the texts of a sequence of checkbox items
TextsOf(items) == {items[i].text : i \in 1..Len(items)}

\* C20: no list that a section reader returns (next steps, blockers, recent
\* activity) holds an item that is one of none, (none), n/a, letter case aside
C20_SentinelsExcluded ==
    /\ "vault_status" \in DOMAIN procs =>
          \A text \in TextsOf(procs["vault_status"].result.next_steps)
                      \cup Range(procs["vault_status"].result.blockers)
                      \cup Range(procs["vault_status"].result.recent_activity) :
              NotSentinel(text)
    /\ "standup" \in DOMAIN procs =>
          \A p \in DOMAIN procs["standup"].blockers :
              \A text \in Range(procs["standup"].next_steps[p])
                          \cup Range(procs["standup"].blockers[p]) :
                  NotSentinel(text)

\* ---------------------------------------------------------------------------
\* The line-oriented sources: session .jsonl, metrics.jsonl, failures.jsonl
\* ---------------------------------------------------------------------------

\* JSON values: str, num, null, bool, list (a sequence), dict (a function and
\* its keys in insertion order)
JStr(text) == [t |-> "str", v |-> text]

JNull == [t |-> "null", v |-> ""]

NoDict == [t |-> "dict", v |-> [k \in {} |-> JNull], keys |-> <<>>]

NoList == [t |-> "list", v |-> <<>>]

\* the place after the digits that start at place i
RECURSIVE SkipDigits(_, _)
SkipDigits(s, i) ==
    IF i <= Len(s) /\ IsDigit(Char(s, i)) THEN SkipDigits(s, i + 1) ELSE i

ParseFailed == [ok |-> FALSE, val |-> JNull, next |-> 0]

Parsed(val, next) == [ok |-> TRUE, val |-> val, next |-> next]

\* json.loads, the decoder: the value that starts at place i of s (white space
\* skipped) and the place after it.  Strings have no escapes and numbers are
\* integers
RECURSIVE ParseValue(_, _)
RECURSIVE ParseMembers(_, _, _)
RECURSIVE ParseElements(_, _, _)
ParseAt(s, i) ==
    IF i > Len(s) THEN ParseFailed
    ELSE IF Char(s, i) = "\""
    THEN (IF Find(s, "\"", i + 1) = 0 THEN ParseFailed
          ELSE Parsed(JStr(SubSeq(s, i + 1, Find(s, "\"", i + 1) - 1)),
                      Find(s, "\"", i + 1) + 1))
    ELSE IF Char(s, i) = "{"
    THEN (IF StartsWithAt(s, "}", SkipSpaces(s, i + 1))
          THEN Parsed(NoDict, SkipSpaces(s, i + 1) + 1)
          ELSE ParseMembers(s, SkipSpaces(s, i + 1), NoDict))
    ELSE IF Char(s, i) = "["
    THEN (IF StartsWithAt(s, "]", SkipSpaces(s, i + 1))
          THEN Parsed(NoList, SkipSpaces(s, i + 1) + 1)
          ELSE ParseElements(s, SkipSpaces(s, i + 1), <<>>))
    ELSE IF IsDigit(Char(s, i))
    THEN Parsed([t |-> "num", v |-> ToInt(SubSeq(s, i, SkipDigits(s, i) - 1))],
                SkipDigits(s, i))
    ELSE IF StartsWithAt(s, "null", i) THEN Parsed(JNull, i + 4)
    ELSE IF StartsWithAt(s, "true", i) THEN Parsed([t |-> "bool", v |-> TRUE], i + 4)
    ELSE IF StartsWithAt(s, "false", i) THEN Parsed([t |-> "bool", v |-> FALSE], i + 5)
    ELSE ParseFailed

ParseValue(s, i) == ParseAt(s, SkipSpaces(s, i))

\* dict[key] = val
SetItem(dict, key, val) ==
    [t |-> "dict",
     v |-> [k \in DOMAIN dict.v \cup {key} |-> IF k = key THEN val ELSE dict.v[k]],
     keys |-> IF key \in DOMAIN dict.v THEN dict.keys ELSE Append(dict.keys, key)]

\* after the member whose value is parsed: "," and the next member, or "}"
MemberDone(s, dict, key, parsed) ==
    IF ~parsed.ok THEN ParseFailed
    ELSE IF StartsWithAt(s, ",", SkipSpaces(s, parsed.next))
    THEN ParseMembers(s, SkipSpaces(s, SkipSpaces(s, parsed.next) + 1),
                      SetItem(dict, key, parsed.val))
    ELSE IF StartsWithAt(s, "}", SkipSpaces(s, parsed.next))
    THEN Parsed(SetItem(dict, key, parsed.val), SkipSpaces(s, parsed.next) + 1)
    ELSE ParseFailed

\* the members of an object from place i on: "key": value
MemberAfterKey(s, dict, key) ==
    IF ~key.ok \/ key.val.t # "str" THEN ParseFailed
    ELSE IF ~StartsWithAt(s, ":", SkipSpaces(s, key.next)) THEN ParseFailed
    ELSE MemberDone(s, dict, key.val.v,
                    ParseValue(s, SkipSpaces(s, key.next) + 1))

ParseMembers(s, i, dict) ==
    IF ~StartsWithAt(s, "\"", i) THEN ParseFailed
    ELSE MemberAfterKey(s, dict, ParseAt(s, i))

ElementDone(s, items, parsed) ==
    IF ~parsed.ok THEN ParseFailed
    ELSE IF StartsWithAt(s, ",", SkipSpaces(s, parsed.next))
    THEN ParseElements(s, SkipSpaces(s, SkipSpaces(s, parsed.next) + 1),
                       Append(items, parsed.val))
    ELSE IF StartsWithAt(s, "]", SkipSpaces(s, parsed.next))
    THEN Parsed([t |-> "list", v |-> Append(items, parsed.val)],
                SkipSpaces(s, parsed.next) + 1)
    ELSE ParseFailed

ParseElements(s, i, items) == ElementDone(s, items, ParseAt(s, i))

\* json.loads(line): <<value>>, or <<>> for json.JSONDecodeError
LoadsOf(s, parsed) ==
    IF parsed.ok /\ SkipSpaces(s, parsed.next) > Len(s) THEN <<parsed.val>>
    ELSE <<>>

json_loads(s) == LoadsOf(s, ParseValue(s, 1))

\* dict.get(key, default)
DictGet(dict, key, default) == IF key \in DOMAIN dict.v THEN dict.v[key] ELSE default

\* bool(value)
Truthy(val) ==
    IF val.t = "null" THEN FALSE
    ELSE IF val.t = "bool" THEN val.v
    ELSE IF val.t = "num" THEN val.v # 0
    ELSE IF val.t = "str" THEN val.v # ""
    ELSE IF val.t = "list" THEN val.v # <<>>
    ELSE val.keys # <<>>

\* the loop body of extract_content for one part, on (text_parts, tool_name,
\* tool_input)
ExtractPart(acc, part) ==
    IF part.t = "dict"
    THEN (IF DictGet(part, "type", JNull) = JStr("text")
          THEN [acc EXCEPT !.text_parts = Append(@, DictGet(part, "text", JStr("")))]
          ELSE IF DictGet(part, "type", JNull) = JStr("tool_use")
          THEN [acc EXCEPT !.tool_name = DictGet(part, "name", JNull),
                           !.tool_input = DictGet(part, "input", JNull)]
          ELSE acc)
    ELSE IF part.t = "str" THEN [acc EXCEPT !.text_parts = Append(@, part)]
    ELSE acc

RECURSIVE ExtractParts(_, _)
ExtractParts(acc, parts) ==
    IF parts = <<>> THEN acc
    ELSE ExtractParts(ExtractPart(acc, Head(parts)), Tail(parts))

NoParts == [text_parts |-> <<>>, tool_name |-> JNull, tool_input |-> JNull]

TextOf(part) == part.v

\* "\n".join(text_parts) raises TypeError on a text that is not a string
ContentOf(acc) ==
    IF \E i \in 1..Len(acc.text_parts) : acc.text_parts[i].t # "str"
    THEN [raised |-> "TypeError", content |-> "",
          tool_name |-> JNull, tool_input |-> JNull]
    ELSE [raised |-> "", content |-> join("\n", Map(TextOf, acc.text_parts)),
          tool_name |-> acc.tool_name, tool_input |-> acc.tool_input]

\* the parts a for loop over content_parts visits: the elements of a list, the
\* keys of a dict, the characters of nothing else (a string returned earlier)
PartsOf(content_parts) ==
    IF content_parts.t = "list" THEN content_parts.v
    ELSE Map(JStr, content_parts.keys)

ContentOfParts(content_parts) ==
    IF content_parts.t = "str"
    THEN [raised |-> "", content |-> content_parts.v,
          tool_name |-> JNull, tool_input |-> JNull]
    ELSE IF content_parts.t \in {"list", "dict"}
    THEN ContentOf(ExtractParts(NoParts, PartsOf(content_parts)))
    ELSE [raised |-> "TypeError", content |-> "",
          tool_name |-> JNull, tool_input |-> JNull]

\* extract_content(message_data): (content, tool_name, tool_input), or the
\* exception raised
extract_content(message_data) ==
    IF DictGet(message_data, "message", NoDict).t # "dict"
    THEN [raised |-> "AttributeError", content |-> "",
          tool_name |-> JNull, tool_input |-> JNull]
    ELSE ContentOfParts(DictGet(DictGet(message_data, "message", NoDict),
                                "content", NoList))

NoSession ==
    [raised |-> "", messages |-> <<>>, session_id |-> JStr(""),
     project_path |-> JStr(""), git_branch |-> JStr("")]

\* the session info taken from the first message
WithSessionInfo(acc, data) ==
    IF Truthy(acc.session_id) THEN acc
    ELSE [acc EXCEPT !.session_id = DictGet(data, "sessionId", JStr("")),
                     !.project_path = DictGet(data, "cwd", JStr("")),
                     !.git_branch = DictGet(data, "gitBranch", JStr(""))]

\* the message of a user or assistant line appended, with its content
WithMessage(acc, data, extracted) ==
    IF extracted.raised # "" THEN [acc EXCEPT !.raised = extracted.raised]
    ELSE IF extracted.content = "" /\ ~Truthy(extracted.tool_name) THEN acc
    ELSE [acc EXCEPT !.messages = Append(@,
              [role |-> DictGet(DictGet(data, "message", NoDict), "role",
                                DictGet(data, "type", JNull)),
               content |-> extracted.content,
               timestamp |-> DictGet(data, "timestamp", JStr("")),
               tool_name |-> extracted.tool_name,
               tool_input |-> extracted.tool_input])]

\* the loop body of parse_session_log on decoded data: data.get("type") raises
\* AttributeError on a value that is not a dict, and nothing catches it
SessionData(acc, data) ==
    IF data.t # "dict" THEN [acc EXCEPT !.raised = "AttributeError"]
    ELSE IF DictGet(data, "type", JNull) \notin {JStr("user"), JStr("assistant")}
    THEN acc
    ELSE WithMessage(WithSessionInfo(acc, data), data, extract_content(data))

\* the loop body of parse_session_log for one line of the file
SessionLine(acc, line) ==
    IF acc.raised # "" THEN acc
    ELSE IF strip(line) = "" THEN acc
    ELSE IF json_loads(strip(line)) = <<>> THEN acc
    ELSE SessionData(acc, json_loads(strip(line))[1])

RECURSIVE SessionLines(_, _)
SessionLines(acc, lines) ==
    IF lines = <<>> THEN acc
    ELSE SessionLines(SessionLine(acc, Head(lines)), Tail(lines))

\* Path(project_path).name if project_path else "unknown"
PathName(path) ==
    IF path = "" THEN "unknown"
    ELSE split(path, "/")[Len(split(path, "/"))]

\* parse_session_log(log_path) on a file of this text: the SessionInfo, or
\* the exception raised
SessionInfo(parsed) ==
    IF parsed.raised # "" THEN [raised |-> parsed.raised]
    ELSE [raised |-> "",
          session_id |-> parsed.session_id,
          project_path |-> parsed.project_path,
          project_name |-> IF parsed.project_path.t = "str"
                           THEN PathName(parsed.project_path.v) ELSE "unknown",
          messages |-> parsed.messages,
          git_branch |-> parsed.git_branch]

parse_session_log(text) == SessionInfo(SessionLines(NoSession, splitlines(text)))

\* the number of records whose key has the value val
CountWhere(records, key, default, val) ==
    Cardinality({i \in 1..Len(records) : DictGet(records[i], key, default) = val})

\* the values of key over the records, each once
ValuesOf(records, key, default) ==
    {DictGet(records[i], key, default) : i \in 1..Len(records)}

\* failures.jsonl, lines 26-34: every line that decodes is a record
FailureLine(records, line) ==
    IF strip(line) = "" THEN records
    ELSE records \o json_loads(line)

RECURSIVE FailureRecords(_, _)
FailureRecords(records, lines) ==
    IF lines = <<>> THEN records
    ELSE FailureRecords(FailureLine(records, Head(lines)), Tail(lines))

\* failure_patterns on a failures.jsonl of this text: the totals and the
\* count of each root cause, or the exception raised: r.get("root_cause")
\* raises AttributeError on a record that is not a dict.  The order of the
\* patterns, their percentages, files and examples are left out
FailurePatterns(records) ==
    IF records = <<>>
    THEN [raised |-> "", error |-> "No failure records found"]
    ELSE IF \E i \in 1..Len(records) : records[i].t # "dict"
    THEN [raised |-> "AttributeError"]
    ELSE [raised |-> "", error |-> "",
          total_failures |-> Len(records),
          unique_causes |-> Cardinality(ValuesOf(records, "root_cause", JStr("UNKNOWN"))),
          patterns |-> [cause \in ValuesOf(records, "root_cause", JStr("UNKNOWN")) |->
                           CountWhere(records, "root_cause", JStr("UNKNOWN"), cause)]]

failure_patterns(text) ==
    FailurePatterns(FailureRecords(<<>>, split(strip(text), "\n")))

\* the day before a date, and the date days earlier
DayBefore(y, m, d) ==
    IF d > 1 THEN FourDigit(y) \o "-" \o TwoDigit(m) \o "-" \o TwoDigit(d - 1)
    ELSE IF m > 1
    THEN FourDigit(y) \o "-" \o TwoDigit(m - 1) \o "-" \o TwoDigit(DaysInMonth(y, m - 1))
    ELSE FourDigit(y - 1) \o "-12-31"

RECURSIVE DaysBefore(_, _)
DaysBefore(date, days) ==
    IF days = 0 THEN date
    ELSE DaysBefore(DayBefore(ToInt(SubSeq(date, 1, 4)), ToInt(SubSeq(date, 6, 7)),
                              ToInt(SubSeq(date, 9, 10))), days - 1)

\* cutoff_date: None (here "") for the period "all", else so many days ago
CutoffDate(period) ==
    IF period = "all" THEN ""
    ELSE DaysBefore(NowDate, ToInt(SubSeq(period, 1, Len(period) - 1)))

\* metrics.jsonl, lines 35-46, on (raised, records): record.get("date", "")
\* raises AttributeError on a record that is not a dict and the comparison
\* TypeError on a date that is not a string; only JSONDecodeError is caught
MetricsRecord(acc, record, cutoff_date) ==
    IF cutoff_date = "" THEN [acc EXCEPT !.records = Append(@, record)]
    ELSE IF record.t # "dict" THEN [acc EXCEPT !.raised = "AttributeError"]
    ELSE IF DictGet(record, "date", JStr("")).t # "str"
    THEN [acc EXCEPT !.raised = "TypeError"]
    ELSE IF StrLess(DictGet(record, "date", JStr("")).v, cutoff_date) THEN acc
    ELSE [acc EXCEPT !.records = Append(@, record)]

MetricsLine(acc, line, cutoff_date) ==
    IF acc.raised # "" THEN acc
    ELSE IF strip(line) = "" THEN acc
    ELSE IF json_loads(line) = <<>> THEN acc
    ELSE MetricsRecord(acc, json_loads(line)[1], cutoff_date)

RECURSIVE MetricsRecords(_, _, _)
MetricsRecords(acc, lines, cutoff_date) ==
    IF lines = <<>> THEN acc
    ELSE MetricsRecords(MetricsLine(acc, Head(lines), cutoff_date), Tail(lines),
                        cutoff_date)

\* the pass and total counts of the records grouped by key
Breakdown(records, key, default) ==
    [val \in ValuesOf(records, key, default) |->
        [pass |-> Cardinality({i \in 1..Len(records) :
                      /\ DictGet(records[i], key, default) = val
                      /\ DictGet(records[i], "status", JNull) = JStr("PASS")}),
         total |-> CountWhere(records, key, default, val)]]

\* agent_metrics on a metrics.jsonl of this text: the counts, or the
\* exception raised: r.get("status") raises AttributeError on a record that is
\* not a dict.  The rates and the order of the top failures are left out
AgentMetrics(period, loaded) ==
    IF loaded.raised # "" THEN [raised |-> loaded.raised]
    ELSE IF loaded.records = <<>>
    THEN [raised |-> "", error |-> "No metrics records in period", period |-> period]
    ELSE IF \E i \in 1..Len(loaded.records) : loaded.records[i].t # "dict"
    THEN [raised |-> "AttributeError"]
    ELSE [raised |-> "", error |-> "", period |-> period,
          total_records |-> Len(loaded.records),
          passed |-> CountWhere(loaded.records, "status", JNull, JStr("PASS")),
          blocked |-> Len(loaded.records)
                      - CountWhere(loaded.records, "status", JNull, JStr("PASS")),
          by_complexity |-> Breakdown(loaded.records, "complexity", JStr("UNKNOWN")),
          by_stack |-> Breakdown(loaded.records, "stack", JStr("unknown")),
          cause_counts |-> [cause \in {c \in ValuesOf(loaded.records, "root_cause", JNull) :
                                          Truthy(c)} |->
                               CountWhere(loaded.records, "root_cause", JNull, cause)]]

agent_metrics(text, period) ==
    AgentMetrics(period, MetricsRecords([raised |-> "", records |-> <<>>],
                                        split(strip(text), "\n"), CutoffDate(period)))

\* the lines a file may hold: messages, records, an entry that is no message,
\* JSON that is not an object, text that is not JSON, an empty line
UserLine ==
    "{\"type\":\"user\",\"sessionId\":\"s1\",\"cwd\":\"/home/u/Foo\",\"gitBranch\":\"main\","
    \o "\"timestamp\":\"2026-03-02T09:00:00Z\","
    \o "\"message\":{\"role\":\"user\",\"content\":\"fix the bug\"}}"

AssistantLine ==
    "{\"type\":\"assistant\",\"timestamp\":\"2026-03-02T09:01:00Z\","
    \o "\"message\":{\"content\":[{\"type\":\"text\",\"text\":\"done\"},"
    \o "{\"type\":\"tool_use\",\"name\":\"Edit\",\"input\":{\"file\":\"a.py\"}}]}}"

PassLine ==
    "{\"date\":\"2026-03-01\",\"status\":\"PASS\",\"complexity\":\"SIMPLE\",\"stack\":\"backend\"}"

BlockedLine ==
    "{\"date\":\"2026-01-15\",\"status\":\"BLOCKED\",\"root_cause\":\"ENUM_VALUE\"}"

OtherLines == {"{\"type\":\"summary\"}", "[]", "42", "{\"type\":\"user\"", ""}

SessionLineTexts == {UserLine, AssistantLine} \cup OtherLines

RecordLineTexts == {PassLine, BlockedLine} \cup OtherLines

MaxLines == 3

\* the files of at most MaxLines lines, each line ended by "\n"
RECURSIVE FilesOf(_, _)
FilesOf(texts, n) ==
    IF n = 0 THEN {""}
    ELSE FilesOf(texts, n - 1)
         \cup {line \o "\n" \o rest : line \in texts, rest \in FilesOf(texts, n - 1)}

Periods == {"30d", "all"}

\* one read of a session log, of metrics.jsonl, of failures.jsonl
ParseSessionCall ==
    /\ procs = NoProcs
    /\ \E text \in FilesOf(SessionLineTexts, MaxLines) :
          procs' = [name \in {"parse_session_log"} |->
                       [text |-> text, period |-> "",
                        result |-> parse_session_log(text)]]
    /\ UNCHANGED <<projdirs, status, daily, weekly, monthly, dashboard, agg, calls>>

AgentMetricsCall ==
    /\ procs = NoProcs
    /\ \E text \in FilesOf(RecordLineTexts, MaxLines), period \in Periods :
          procs' = [name \in {"agent_metrics"} |->
                       [text |-> text, period |-> period,
                        result |-> agent_metrics(text, period)]]
    /\ UNCHANGED <<projdirs, status, daily, weekly, monthly, dashboard, agg, calls>>

FailurePatternsCall ==
    /\ procs = NoProcs
    /\ \E text \in FilesOf(RecordLineTexts, MaxLines) :
          procs' = [name \in {"failure_patterns"} |->
                       [text |-> text, period |-> "",
                        result |-> failure_patterns(text)]]
    /\ UNCHANGED <<projdirs, status, daily, weekly, monthly, dashboard, agg, calls>>

NextLines == ParseSessionCall \/ AgentMetricsCall \/ FailurePatternsCall

SpecLines == EmptyVault /\ [][NextLines]_vars

\* a malformed line: text that is not JSON, or JSON that is not an object
Malformed(line) ==
    /\ strip(line) # ""
    /\ \/ json_loads(line) = <<>>
       \/ json_loads(line)[1].t # "dict"

WellFormed(line) == ~Malformed(line)

\* the file without its malformed lines
WellFormedOnly(text) == join("\n", Filter(WellFormed, split(text, "\n")))

\* what the reader named makes of a text
ReadBy(name, text, period) ==
    IF name = "parse_session_log" THEN parse_session_log(text)
    ELSE IF name = "agent_metrics" THEN agent_metrics(text, period)
    ELSE failure_patterns(text)

\* C21: a read of a line-oriented source never aborts on a malformed line
\* (text that is not JSON, or JSON that is not an object), and what it returns
\* is what it returns for the well-formed lines alone, in their order.
C21_MalformedLinesSkipped ==
    \A name \in DOMAIN procs :
        /\ procs[name].result.raised = ""
        /\ procs[name].result
           = ReadBy(name, WellFormedOnly(procs[name].text), procs[name].period)

\* the documents of one project: its STATUS.md and its daily, weekly and
\* monthly files
ProjectDocuments(q) ==
    [status  |-> IF Exists(status, q) THEN <<status[q]>> ELSE <<>>,
     daily   |-> LogDir(daily, q),
     weekly  |-> LogDir(weekly, q),
     monthly |-> LogDir(monthly, q)]

\* C22: a call of write_status, write_daily, generate_weekly or
\* generate_monthly for one project leaves every document of every other
\* project as it was, and write_dashboard changes no document of any project:
\* DASHBOARD.md is all it writes.
C22_ProjectIsolation ==
    [][/\ \A q \in Projects :
            LastCall'.project # q => ProjectDocuments(q)' = ProjectDocuments(q)
       /\ LastCall'.op = "write_dashboard"
            => <<status, daily, weekly, monthly>>' = <<status, daily, weekly, monthly>>]_vars

\* project Bar has a Status document and a daily file, and the call that was
\* made last is one for project Foo
C22_Witness ==
    /\ Len(calls) = MaxOps
    /\ Exists(status, "Bar")
    /\ DOMAIN LogDir(daily, "Bar") # {}
    /\ LastCall.project = "Foo"

-----------------------------------------------------------------------------
(* vault_writer.py: update, the three writes of one session by one writer  *)

\* how many calls of update a run makes
MaxUpdates == 2

\* update(project_name, extract, date) called: the writer is at line 168
update(project_name, extract, date) ==
    /\ "update" \in DOMAIN procs => procs["update"].pc = "return"
    /\ procs' = [name \in {"update"} |->
                    [project_name |-> project_name, extract |-> extract,
                     date |-> date, pc |-> "write_status",
                     calls |-> IF "update" \in DOMAIN procs
                               THEN procs["update"].calls + 1 ELSE 1]]
    /\ UNCHANGED <<projdirs, status, daily, weekly, monthly, dashboard, agg, calls>>

\* lines 168-170: write_status, then write_daily, then write_dashboard
UpdateWriteStatus ==
    /\ "update" \in DOMAIN procs
    /\ procs["update"].pc = "write_status"
    /\ write_status(procs["update"].project_name, procs["update"].extract)
    /\ procs' = [procs EXCEPT !["update"].pc = "write_daily"]

UpdateWriteDaily ==
    /\ "update" \in DOMAIN procs
    /\ procs["update"].pc = "write_daily"
    /\ write_daily(procs["update"].project_name, procs["update"].extract,
                   procs["update"].date)
    /\ procs' = [procs EXCEPT !["update"].pc = "write_dashboard"]

UpdateWriteDashboard ==
    /\ "update" \in DOMAIN procs
    /\ procs["update"].pc = "write_dashboard"
    /\ write_dashboard
    /\ procs' = [procs EXCEPT !["update"].pc = "return"]

UpdateCall ==
    /\ "update" \in DOMAIN procs => procs["update"].calls < MaxUpdates
    /\ \E p \in Projects, r \in StatusRecords : update(p, r, "")

NextUpdate == UpdateCall \/ UpdateWriteStatus \/ UpdateWriteDaily \/ UpdateWriteDashboard

SpecUpdate == EmptyVault /\ [][NextUpdate]_vars

\* the row shows the status and the phase of the record, the em dash for an
\* empty one
ShowsStatusAndPhase(row, extract) ==
    /\ ColumnsOf(row)[2] = Or(extract.status, EmDash)
    /\ ColumnsOf(row)[3] = Or(extract.phase, EmDash)

\* C23: when a single writer has made a number of update calls and the last has
\* returned, the Dashboard has one row for every project that has a Status
\* document, and the status and phase of each row are those of the record of
\* the project's most recent update (the em dash for an empty one).
C23_DashboardConsistent ==
    ("update" \in DOMAIN procs /\ procs["update"].pc = "return") =>
        /\ Exists(dashboard, "DASHBOARD.md")
        /\ \A p \in DOMAIN status :
              /\ Len(RowsOf(dashboard["DASHBOARD.md"], p)) = 1
              /\ ShowsStatusAndPhase(RowsOf(dashboard["DASHBOARD.md"], p)[1],
                                     LastStatusRecord(p))

\* the last call wrote the Status document of Foo from a record none of whose
\* next steps is a sentinel, and the tool named has read the vault since
ReadAfterStatusWrite(tool) ==
    /\ Fresh(tool)
    /\ calls # <<>>
    /\ LastCall.op = "write_status"
    /\ LastCall.project = "Foo"
    /\ \A text \in Range(LastCall.extract.next_steps) : NotSentinel(text)

\* C24: after write_status(p, r), vault_status(p) and get_next_steps_v2 return
\* the texts of r.next_steps in order, every one unchecked, and
\* vault_status(p).blockers is r.blockers when no blocker is an empty sentinel.
C24_StatusReadable ==
    /\ (ReadAfterStatusWrite("vault_status")
        /\ procs["vault_status"].project = "Foo") =>
          /\ procs["vault_status"].result.next_steps
             = Map(LAMBDA text : [done |-> FALSE, text |-> text],
                   LastCall.extract.next_steps)
          /\ (\A text \in Range(LastCall.extract.blockers) : NotSentinel(text))
                => procs["vault_status"].result.blockers = LastCall.extract.blockers
    /\ ReadAfterStatusWrite("standup") =>
          procs["standup"].next_steps["Foo"] = LastCall.extract.next_steps

-----------------------------------------------------------------------------
(* mcp-server/tools/vault_dashboard.py: the Dashboard read by the MCP tool *)

\* re.match(r"^###?\s+(.+)$", line): "##" or "###", white space, and at least
\* one more character
IsProjectHeading(line) ==
    \/ /\ startswith(line, "###") /\ Len(line) >= 5 /\ Char(line, 4) \in Whitespace
    \/ /\ startswith(line, "##") /\ Len(line) >= 4 /\ Char(line, 3) \in Whitespace

\* proj_match.group(1).strip()
ProjectHeadingName(line) ==
    IF startswith(line, "###") /\ Len(line) >= 5 /\ Char(line, 4) \in Whitespace
    THEN strip(SubSeq(line, 4, Len(line)))
    ELSE strip(SubSeq(line, 3, Len(line)))

\* lines 42-48: a bullet under a project is its status when it has none yet and
\* the bullet has text, a detail otherwise
WithBullet(entry, text) ==
    IF entry.status = <<>> /\ text # "" THEN [entry EXCEPT !.status = <<text>>]
    ELSE [entry EXCEPT !.details = Append(@, text)]

\* lines 31-48, the loop body on (current_project, projects); current_project
\* is None (here <<>>) until a heading is met
DashboardLine(acc, line) ==
    IF IsProjectHeading(line)
    THEN [current_project |-> <<ProjectHeadingName(line)>>,
          projects |-> Append(acc.projects,
                              [name |-> ProjectHeadingName(line), status |-> <<>>,
                               details |-> <<>>])]
    ELSE IF /\ acc.current_project \notin {<<>>, <<"">>}
            /\ startswith(strip(line), "-")
            /\ acc.projects # <<>>
    THEN [acc EXCEPT !.projects[Len(acc.projects)] =
              WithBullet(@, strip(lstrip(strip(line), {"-", " "})))]
    ELSE acc

RECURSIVE DashboardLines(_, _)
DashboardLines(acc, lines) ==
    IF lines = <<>> THEN acc
    ELSE DashboardLines(DashboardLine(acc, Head(lines)), Tail(lines))

\* lines 60-63: the first line of STATUS.md that is not empty and does not
\* start with "#", stripped; None (here <<>>) without one
FirstPlainLine(lines) ==
    Map(strip, FirstOf(Filter(LAMBDA sline : strip(sline) # "" /\ ~startswith(sline, "#"),
                              lines)))

\* lines 50-70: the fallback, one entry for each project directory whose name
\* does not start with "."
DirectoryScan ==
    Map(LAMBDA name :
            [name |-> name,
             status |-> IF Exists(status, name)
                        THEN FirstPlainLine(Lines(status[name].text)) ELSE <<>>,
             has_status_md |-> Exists(status, name),
             has_daily_logs |-> Exists(daily, name)],
        Filter(LAMBDA name : ~startswith(name, "."), SortedNames(projdirs)))

WithTotal(source, projects) ==
    [source |-> source, projects |-> projects, total_projects |-> Len(projects)]

\* vault_dashboard(), lines 10-73
vault_dashboard ==
    IF Exists(dashboard, "DASHBOARD.md")
    THEN WithTotal("DASHBOARD.md",
                   DashboardLines([current_project |-> <<>>, projects |-> <<>>],
                                  Lines(dashboard["DASHBOARD.md"])).projects)
    ELSE WithTotal("directory_scan", DirectoryScan)

\* how many writer calls a run of the Dashboard and its reader makes
MaxDashboardOps == 3

DashboardRecords == {RecA, RecB}

DashStatusCall ==
    /\ Len(calls) < MaxDashboardOps
    /\ \E p \in Projects, r \in DashboardRecords : write_status(p, r)
    /\ UNCHANGED procs

DashWriteCall ==
    /\ Len(calls) < MaxDashboardOps
    /\ write_dashboard
    /\ UNCHANGED procs

\* the MCP tool called; at is the number of writer calls made before
VaultDashboardCall ==
    /\ procs' = [name \in {"vault_dashboard"} |->
                    [at |-> Len(calls), result |-> vault_dashboard]]
    /\ UNCHANGED <<projdirs, status, daily, weekly, monthly, dashboard, agg, calls>>

NextDashboard == DashStatusCall \/ DashWriteCall \/ VaultDashboardCall

SpecDashboard == EmptyVault /\ [][NextDashboard]_vars

\* the names of the entries returned
NamesOf(projects) == {projects[i].name : i \in 1..Len(projects)}

\* C25: when write_dashboard has written a Dashboard with k >= 1 project rows,
\* vault_dashboard returns total_projects = k and one entry named after each
\* of the projects.
C25_DashboardReadable ==
    (/\ Fresh("vault_dashboard")
     /\ calls # <<>>
     /\ LastCall.op = "write_dashboard"
     /\ DOMAIN status # {}) =>
        /\ procs["vault_dashboard"].result.total_projects = Cardinality(DOMAIN status)
        /\ Len(procs["vault_dashboard"].result.projects) = Cardinality(DOMAIN status)
        /\ NamesOf(procs["vault_dashboard"].result.projects) = DOMAIN status

\* the completed items that an entry rendered from the record holds: those of
\* its groups when it has groups, else its flat list
RenderedCompleted(extract) ==
    IF extract.completed_groups # <<>>
    THEN Flatten(Map(LAMBDA group : group.items, extract.completed_groups))
    ELSE extract.completed

\* the completed items of the entries appended for Foo on or after since_date
\* (one date is written in these runs, so call order is document order)
CompletedSince(since_date) ==
    Flatten(Map(LAMBDA call : RenderedCompleted(call.extract),
                Filter(LAMBDA call : /\ call.op = "write_daily"
                                     /\ call.project = "Foo"
                                     /\ ~StrLess(call.key, since_date),
                       calls)))

\* C26: get_completed_items_v2 returns every completed item of every entry of
\* every Daily document dated on or after since_date, each exactly once: the
\* items of a second entry of the same date and the items under completed-group
\* sub-headings are among them.
C26_AllCompletedRead ==
    (Fresh("standup") /\ "Foo" \in DOMAIN procs["standup"].completed) =>
        procs["standup"].completed["Foo"] = CompletedSince(procs["standup"].since)

-----------------------------------------------------------------------------
(* The Rollup Aggregator over a Daily directory with files whose names are *)
(* not dates                                                               *)

\* the date argument of write_daily is any string: a date, and names that are
\* no calendar date
NameDates == {"2026-02-06", "2026-02-notes", "2026-02-30"}

\* how many calls a run makes
MaxNameOps == 3

NameDailyCall ==
    /\ Len(calls) < MaxNameOps
    /\ \E r \in {RecA, RecB}, d \in NameDates : write_daily("Foo", r, d)
    /\ UNCHANGED procs

NameWeeklyCall ==
    /\ Len(calls) < MaxNameOps
    /\ generate_weekly("Foo", "2026-W06")
    /\ UNCHANGED procs

NameMonthlyCall ==
    /\ Len(calls) < MaxNameOps
    /\ generate_monthly("Foo", "2026-02")
    /\ UNCHANGED procs

NextNames == NameDailyCall \/ NameWeeklyCall \/ NameMonthlyCall

SpecNames == EmptyVault /\ [][NextNames]_vars

\* the name is a date written YYYY-MM-DD
IsValidDate(stem) == IsDateStem(stem) /\ strptime(stem) # <<>>

\* C27: a file of the Daily directory whose name is not a valid YYYY-MM-DD date
\* is not among the files a rollup is made from, under the week filter and
\* under the month filter alike.
C27_NonDateFilesSkipped ==
    (calls # <<>> /\ LastCall.op \in {"generate_weekly", "generate_monthly"}) =>
        \A i \in 1..Len(agg.files) : IsValidDate(agg.files[i])

-----------------------------------------------------------------------------
(* mcp-server/tools/vault_search.py: the search of the daily logs          *)

\* line 64: the limit on the entries of a result, and line 60: on the lines of
\* one entry
TotalLimit == 50

LinesPerFile == 10

\* pattern.search(line), the pattern re.escape(query) with re.IGNORECASE
PatternSearch(query, line) == Contains(lower(line), lower(query))

\* lines 50-53: the lines of the file that match, numbered from 1
MatchingLines(query, lines) ==
    Map(LAMBDA i : [line_number |-> i, text |-> strip(lines[i])],
        Filter(LAMBDA i : PatternSearch(query, lines[i]), Indices(Len(lines))))

\* lines 55-61: the entry of a file with matching lines, none without
MatchEntry(project, date_str, matching_lines) ==
    IF matching_lines = <<>> THEN <<>>
    ELSE <<[project |-> project, date |-> date_str,
            lines |-> SubSeq(matching_lines, 1, Min({LinesPerFile, Len(matching_lines)}))]>>

\* sorted(..., reverse=True)
Reversed(items) == [i \in 1..Len(items) |-> items[Len(items) + 1 - i]]

\* lines 44-61: the entries of the daily files of one project, latest first
ProjectMatches(query, project) ==
    Flatten(Map(LAMBDA stem : MatchEntry(project, stem,
                                  MatchingLines(query, Lines(daily[project][stem]))),
                Filter(IsDateStem, Reversed(SortedStems(LogDir(daily, project))))))

\* lines 36-66: the loop over the project directories; the limit is tested
\* when a project has been searched, and ends the loop
RECURSIVE SearchProjects(_, _, _)
AfterProject(query, rest, matches) ==
    IF Len(matches) > TotalLimit THEN [matches |-> matches, truncated |-> TRUE]
    ELSE SearchProjects(query, rest, matches)

SearchProjects(query, project_dirs, matches) ==
    IF project_dirs = <<>> THEN [matches |-> matches, truncated |-> FALSE]
    ELSE IF ~Exists(daily, Head(project_dirs))
    THEN SearchProjects(query, Tail(project_dirs), matches)
    ELSE AfterProject(query, Tail(project_dirs),
                      matches \o ProjectMatches(query, Head(project_dirs)))

SearchResult(query, found) ==
    [error |-> "", query |-> query, matches |-> found.matches,
     truncated |-> found.truncated, total_matches |-> Len(found.matches)]

\* vault_search(query, project), project "" for None; the file path of an
\* entry is left out
vault_search(query, project) ==
    IF projdirs = {}
    THEN [error |-> "Projects directory not found", query |-> query,
          matches |-> <<>>, truncated |-> FALSE, total_matches |-> 0]
    ELSE SearchResult(query,
             SearchProjects(query,
                 IF project # "" THEN <<project>>
                 ELSE Filter(LAMBDA name : ~startswith(name, "."), SortedNames(projdirs)),
                 <<>>))

\* the k-th date of the year 2026, for k up to 59
DateOfDay(k) ==
    IF k <= 31 THEN "2026-01-" \o TwoDigit(k) ELSE "2026-02-" \o TwoDigit(k - 31)

\* how many days of sessions of Foo the vault found holds, one file each
SearchDays == 50

\* how many sessions a run adds
MaxSearchOps == 2

\* the vault before the run: empty, or with the daily files of Foo that one
\* session a day has written
VaultSearched ==
    /\ \/ projdirs = {} /\ daily = EmptyDir
       \/ /\ projdirs = {"Foo"}
          /\ daily = WriteText(EmptyDir, "Foo",
                         [date \in {DateOfDay(k) : k \in 1..SearchDays} |->
                             render_daily_header(date)
                             \o render_daily_entry("Foo", RecA, "09:00")])
    /\ status = EmptyDir
    /\ weekly = EmptyDir
    /\ monthly = EmptyDir
    /\ dashboard = EmptyDir
    /\ agg = [files |-> <<>>, acc |-> NoItems, ret |-> NoItems]
    /\ calls = <<>>
    /\ procs = NoProcs

Queries == {"LOGIN", ""}

\* a session of the day after the days found
SearchDailyWrite ==
    /\ Len(calls) < MaxSearchOps
    /\ \E p \in Projects, r \in {RecA, RecB} :
          write_daily(p, r, DateOfDay(SearchDays + 1))
    /\ procs' = NoProcs

\* the MCP tool called
VaultSearchCall ==
    /\ procs = NoProcs
    /\ \E query \in Queries, project \in {"", "Foo"} :
          procs' = [name \in {"vault_search"} |->
                       [project |-> project, result |-> vault_search(query, project)]]
    /\ UNCHANGED <<projdirs, status, daily, weekly, monthly, dashboard, agg, calls>>

NextSearch == SearchDailyWrite \/ VaultSearchCall

SpecSearch == VaultSearched /\ [][NextSearch]_vars

\* the daily files of the projects searched that hold the query
FilesHolding(query, project) ==
    {<<name, stem>> \in (IF project # "" THEN {project} ELSE projdirs)
                        \X UNION {DOMAIN LogDir(daily, name) : name \in projdirs} :
        /\ stem \in DOMAIN LogDir(daily, name)
        /\ IsDateStem(stem)
        /\ Contains(lower(daily[name][stem]), lower(query))}

\* C28: the result of vault_search has at most 50 entries, however many daily
\* files of one project match, each entry lists at most 10 lines, and truncated
\* is set whenever an entry was left out.
C28_SearchLimited ==
    "vault_search" \in DOMAIN procs =>
        /\ Len(procs["vault_search"].result.matches) <= TotalLimit
        /\ \A i \in 1..Len(procs["vault_search"].result.matches) :
              Len(procs["vault_search"].result.matches[i].lines) <= LinesPerFile
        /\ Len(procs["vault_search"].result.matches)
              < Cardinality(FilesHolding(procs["vault_search"].result.query,
                                         procs["vault_search"].project))
           => procs["vault_search"].result.truncated

-----------------------------------------------------------------------------
(* obsidian_agent/extractor.py: extract_captures, one loop test at a step  *)

UserCapture == "User: [CAPTURE]"

AssistantCapture == "Assistant: [CAPTURE]"

\* lines 61-64: the line starts a capture
IsCapture(line) == startswith(line, UserCapture) \/ startswith(line, AssistantCapture)

\* lines 65-68: what follows the tag, stripped
CaptureHead(line) ==
    IF startswith(line, UserCapture)
    THEN strip(SubSeq(line, Len(UserCapture) + 1, Len(line)))
    ELSE strip(SubSeq(line, Len(AssistantCapture) + 1, Len(line)))

\* lines 74-77: the next speaker
IsSpeaker(line) ==
    startswith(line, "User:") \/ startswith(line, "Assistant:") \/ startswith(line, "A:")

\* lines 74-80: the inner loop leaves at line i (counted from 1)
Breaks(lines, i) ==
    \/ IsSpeaker(lines[i])
    \/ /\ strip(lines[i]) = ""
       /\ \/ i + 1 > Len(lines)
          \/ IsSpeaker(lines[i + 1])
          \/ startswith(lines[i + 1], "[")

\* lines 84-86 with the inner loop left and the index as it is (a faulty
\* variant moves it on, as a for loop over the lines would)
FinishCaptureSkipping(p) ==
    [p EXCEPT !.pc = "outer",
              !.i = p.i + 1,
              !.captures = IF Len(strip(p.content)) > 10
                           THEN Append(@, strip(p.content)) ELSE @]

\* lines 84-86: the content stripped, kept when longer than 10 characters
FinishCapture(p) ==
    [p EXCEPT !.pc = "outer",
              !.captures = IF Len(strip(p.content)) > 10
                           THEN Append(@, strip(p.content)) ELSE @]

\* lines 52-57: the call; examined is the history of the lines that the outer
\* loop has looked at
extract_captures(conversation_text) ==
    /\ procs = NoProcs
    /\ procs' = [name \in {"extract_captures"} |->
                    [lines |-> Lines(conversation_text), i |-> 1, content |-> "",
                     captures |-> <<>>, examined |-> <<>>, pc |-> "outer"]]
    /\ UNCHANGED <<projdirs, status, daily, weekly, monthly, dashboard, agg, calls>>

\* one test of the outer loop, lines 58-71 and 87-88
OuterOf(p) ==
    IF p.i > Len(p.lines) THEN [p EXCEPT !.pc = "return"]
    ELSE IF IsCapture(p.lines[p.i])
    THEN [p EXCEPT !.content = CaptureHead(p.lines[p.i]),
                   !.i = p.i + 1,
                   !.examined = Append(@, p.i),
                   !.pc = "inner"]
    ELSE [p EXCEPT !.i = p.i + 1, !.examined = Append(@, p.i)]

CapturesOuter ==
    /\ "extract_captures" \in DOMAIN procs
    /\ procs["extract_captures"].pc = "outer"
    /\ procs' = [procs EXCEPT !["extract_captures"] = OuterOf(@)]
    /\ UNCHANGED <<projdirs, status, daily, weekly, monthly, dashboard, agg, calls>>

\* one test of the inner loop, lines 72-82, and lines 84-86 when it is left
InnerOf(p) ==
    IF p.i > Len(p.lines) \/ Breaks(p.lines, p.i) THEN FinishCapture(p)
    ELSE [p EXCEPT !.content = p.content \o "\n" \o p.lines[p.i], !.i = p.i + 1]

CapturesInner ==
    /\ "extract_captures" \in DOMAIN procs
    /\ procs["extract_captures"].pc = "inner"
    /\ procs' = [procs EXCEPT !["extract_captures"] = InnerOf(@)]
    /\ UNCHANGED <<projdirs, status, daily, weekly, monthly, dashboard, agg, calls>>

\* the lines of the conversations
CaptureLineTexts ==
    {"User: [CAPTURE] Use WAL mode for SQLite",
     "Assistant: [CAPTURE] short",
     "and the long body of it",
     "",
     "User: what is next?",
     "[tool output]"}

MaxCaptureLines == 3

RECURSIVE Conversations(_)
Conversations(n) ==
    IF n = 0 THEN {""}
    ELSE Conversations(n - 1)
         \cup {line \o "\n" \o rest : line \in CaptureLineTexts, rest \in Conversations(n - 1)}

CapturesCall == \E text \in Conversations(MaxCaptureLines) : extract_captures(text)

NextCaptures == CapturesCall \/ CapturesOuter \/ CapturesInner

\* the function runs on once called: a loop test that can be made is made
SpecCaptures ==
    EmptyVault /\ [][NextCaptures]_vars /\ WF_vars(CapturesOuter) /\ WF_vars(CapturesInner)

\* the line after the body of the capture that starts at line k
BodyEnd(lines, k) ==
    Min({j \in (k + 1)..Len(lines) : Breaks(lines, j)} \cup {Len(lines) + 1})

\* the content of the capture that starts at line k: what follows the tag and
\* the lines of the body, stripped
CaptureAt(lines, k) ==
    strip(join("\n", <<CaptureHead(lines[k])>> \o SubSeq(lines, k + 1, BodyEnd(lines, k) - 1)))

\* every capture of the conversation that is longer than 10 characters, in order
CapturesOf(lines) ==
    Filter(LAMBDA content : Len(content) > 10,
           Map(LAMBDA k : CaptureAt(lines, k),
               Filter(LAMBDA k : IsCapture(lines[k]), Indices(Len(lines)))))

\* the call has returned; the outer loop looked at lines of strictly growing
\* index, at every line that starts a capture among them, and the captures
\* returned are all those longer than 10 characters, in order
CapturesReturned ==
    /\ "extract_captures" \in DOMAIN procs
    /\ procs["extract_captures"].pc = "return"
    /\ \A m \in 1..(Len(procs["extract_captures"].examined) - 1) :
          procs["extract_captures"].examined[m] < procs["extract_captures"].examined[m + 1]
    /\ \A k \in 1..Len(procs["extract_captures"].lines) :
          IsCapture(procs["extract_captures"].lines[k])
             => k \in Range(procs["extract_captures"].examined)
    /\ procs["extract_captures"].captures = CapturesOf(procs["extract_captures"].lines)

\* C29: extract_captures, once called, terminates on every input, the line
\* index advancing at every test of the outer loop, and it has then looked at
\* every line that starts a [CAPTURE] message (one that follows the body of
\* another capture included) and returned every capture whose stripped content
\* is longer than 10 characters, in order of appearance.
C29_CapturesTerminate == ("extract_captures" \in DOMAIN procs) ~> CapturesReturned

\* returned with two captures, the second of which starts on the line after
\* the body of the first
C29_Witness ==
    /\ "extract_captures" \in DOMAIN procs
    /\ procs["extract_captures"].pc = "return"
    /\ Len(procs["extract_captures"].captures) = 2
    /\ Len(procs["extract_captures"].lines) >= 3
    /\ IsCapture(procs["extract_captures"].lines[1])
    /\ ~IsSpeaker(procs["extract_captures"].lines[2])
    /\ procs["extract_captures"].lines[2] # ""
    /\ IsCapture(procs["extract_captures"].lines[3])

\* ---- The PreCompact hook: precompact_checkpoint.py ----

\* line 32
CHECKPOINT_RETENTION_DAYS == 7

\* the seconds of a day, line 157
SecondsPerDay == 86400

\* how many runs of the hook and how many advances of the clock a behaviour has
MaxRuns == 2

MaxTicks == 2

\* Path.suffix: the name from its last dot on, when that dot is neither the
\* first nor the last character
Suffix(name) ==
    LET k == Max({i \in 1..Len(name) : Char(name, i) = "."} \cup {0})
    IN  IF 1 < k /\ k < Len(name) THEN SubSeq(name, k, Len(name)) ELSE ""

\* line 164: what the loop takes for a checkpoint
IsCheckpointFile(name) == Suffix(name) \in {".jsonl", ".md"} /\ Contains(name, "__")

\* lines 167-172: the entry is removed when it is older than the cutoff; the
\* unlink of a directory raises OSError and the loop goes on
Unlinked(entry, cutoff) == entry.mtime < cutoff /\ ~entry.isdir

\* lines 152-174 over a directory that exists (main has made it, line 183):
\* the directory that is left
cleanup_old_checkpoints(out_dir, retention_days, now) ==
    LET cutoff == now - retention_days * SecondsPerDay
        Kept == {name \in DOMAIN out_dir :
                    \/ name = "PERSISTENT_STATE.yaml"
                    \/ ~IsCheckpointFile(name)
                    \/ ~Unlinked(out_dir[name], cutoff)}
    IN  [name \in Kept |-> out_dir[name]]

\* strftime("%Y%m%d-%H%M%S") of a clock that counts the seconds of 2026
Timestamp(now) ==
    LET date == DateOfDay(now \div SecondsPerDay + 1)
        secs == now % SecondsPerDay
    IN  SubSeq(date, 1, 4) \o SubSeq(date, 6, 7) \o SubSeq(date, 9, 10) \o "-"
        \o TwoDigit(secs \div 3600) \o TwoDigit((secs % 3600) \div 60) \o TwoDigit(secs % 60)

\* a variant that keeps the modification time of the source, as copy2 does
Copy2Mtime(src_mtime, now) == src_mtime

\* shutil.copyfile, line 191: the copy is a file written now
CopyfileMtime(src_mtime, now) == now

FileAt(mtime) == [mtime |-> mtime, isdir |-> FALSE]

\* lines 185-191
RawDst(ts, session_id, trigger) == ts \o "__" \o session_id \o "__" \o trigger \o ".transcript.jsonl"

\* line 198
MdDst(ts, session_id, trigger) == ts \o "__" \o session_id \o "__" \o trigger \o ".md"

\* what the checkpoint directory holds before the first run: the state file,
\* a note, a log, a checkpoint of an earlier session and a directory that is
\* named like a checkpoint, all of the first second of the year
OutDirBefore ==
    [name \in {"PERSISTENT_STATE.yaml", "notes.md", "run__log.txt",
               "20260101-000000__s0__auto.md",
               "20260101-000000__s0__auto.transcript.jsonl", "archive__2025.md"}
        |-> [mtime |-> 0, isdir |-> name = "archive__2025.md"]]

\* the hook has not run; the clock reads the first second of the year or one
\* second more than the retention period later
HookIdle ==
    /\ projdirs = {}
    /\ status = EmptyDir
    /\ daily = EmptyDir
    /\ weekly = EmptyDir
    /\ monthly = EmptyDir
    /\ dashboard = EmptyDir
    /\ agg = [files |-> <<>>, acc |-> NoItems, ret |-> NoItems]
    /\ calls = <<>>
    /\ \E now \in {0, CHECKPOINT_RETENTION_DAYS * SecondsPerDay + 1} :
           procs = [name \in {"precompact"} |->
                       [pc |-> "idle", out_dir |-> OutDirBefore, now |-> now,
                        ticks |-> 0, runs |-> 0, raw_dst |-> "", md_dst |-> ""]]

\* the transcripts a run is given: none at that path, or one last written in
\* the first second of the year
NoTranscript == <<>>

Transcripts == {NoTranscript, <<FileAt(0)>>}

SessionIds == {"s1", "s2"}

Triggers == {"auto", "manual"}

\* the clock moves on: by a second at any time, by the retention period
\* between two runs
Elapsed(p) ==
    IF p.pc \in {"idle", "returned", "raised"}
    THEN {1, CHECKPOINT_RETENTION_DAYS * SecondsPerDay}
    ELSE {1}

Tick ==
    /\ procs["precompact"].ticks < MaxTicks
    /\ \E d \in Elapsed(procs["precompact"]) :
           procs' = [procs EXCEPT !["precompact"].now = @ + d, !["precompact"].ticks = @ + 1]
    /\ UNCHANGED <<projdirs, status, daily, weekly, monthly, dashboard, agg, calls>>

\* lines 178-191: the names of the run and the copy of the transcript;
\* copyfile raises when there is no transcript and the run ends
PrecompactCopy(p, transcript, session_id, trigger) ==
    IF transcript = NoTranscript
    THEN [p EXCEPT !.pc = "raised", !.runs = @ + 1, !.raw_dst = "", !.md_dst = ""]
    ELSE [p EXCEPT !.pc = "copied", !.runs = @ + 1,
                   !.raw_dst = RawDst(Timestamp(p.now), session_id, trigger),
                   !.md_dst = MdDst(Timestamp(p.now), session_id, trigger),
                   !.out_dir = WriteText(@, RawDst(Timestamp(p.now), session_id, trigger),
                                         FileAt(CopyfileMtime(transcript[1].mtime, p.now)))]

PrecompactCall ==
    /\ procs["precompact"].pc \in {"idle", "returned", "raised"}
    /\ procs["precompact"].runs < MaxRuns
    /\ \E transcript \in Transcripts, session_id \in SessionIds, trigger \in Triggers :
           procs' = [procs EXCEPT !["precompact"] = PrecompactCopy(@, transcript, session_id, trigger)]
    /\ UNCHANGED <<projdirs, status, daily, weekly, monthly, dashboard, agg, calls>>

\* lines 194-221: the summary is written
PrecompactSummary ==
    /\ procs["precompact"].pc = "copied"
    /\ procs' = [procs EXCEPT !["precompact"].pc = "summarised",
                              !["precompact"].out_dir =
                                  WriteText(@, procs["precompact"].md_dst, FileAt(procs["precompact"].now))]
    /\ UNCHANGED <<projdirs, status, daily, weekly, monthly, dashboard, agg, calls>>

\* lines 114-149: the state file is written again when PyYAML is there, the
\* file exists and nothing is raised on the way
update_persistent_state(out_dir, yaml, raised, now) ==
    IF yaml /\ "PERSISTENT_STATE.yaml" \in DOMAIN out_dir /\ ~raised
    THEN WriteText(out_dir, "PERSISTENT_STATE.yaml", FileAt(now))
    ELSE out_dir

\* lines 224-230
PrecompactState ==
    /\ procs["precompact"].pc = "summarised"
    /\ \E yaml \in BOOLEAN, raised \in BOOLEAN :
           procs' = [procs EXCEPT !["precompact"].pc = "updated",
                                  !["precompact"].out_dir =
                                      update_persistent_state(@, yaml, raised, procs["precompact"].now)]
    /\ UNCHANGED <<projdirs, status, daily, weekly, monthly, dashboard, agg, calls>>

\* lines 232-246
PrecompactCleanup ==
    /\ procs["precompact"].pc = "updated"
    /\ procs' = [procs EXCEPT !["precompact"].pc = "returned",
                              !["precompact"].out_dir =
                                  cleanup_old_checkpoints(@, CHECKPOINT_RETENTION_DAYS,
                                                          procs["precompact"].now)]
    /\ UNCHANGED <<projdirs, status, daily, weekly, monthly, dashboard, agg, calls>>

NextCheckpoint == Tick \/ PrecompactCall \/ PrecompactSummary \/ PrecompactState \/ PrecompactCleanup

SpecCheckpoint == HookIdle /\ [][NextCheckpoint]_vars

\* the test of the claim for a checkpoint, on the name alone
NamedCheckpoint(name) ==
    /\ Contains(name, "__")
    /\ \/ Len(name) >= 6 /\ SubSeq(name, Len(name) - 5, Len(name)) = ".jsonl"
       \/ Len(name) >= 3 /\ SubSeq(name, Len(name) - 2, Len(name)) = ".md"

\* the names a step takes out of the checkpoint directory
Deleted == DOMAIN procs["precompact"].out_dir \ DOMAIN procs'["precompact"].out_dir

\* C30: the cleanup of a run deletes only checkpoints, files whose name
\* contains "__" and ends in .jsonl or .md, that are not younger than the
\* retention period, never PERSISTENT_STATE.yaml, and the transcript copy and
\* the summary of the run are in the directory after it
C30_CleanupSpares ==
    [][procs["precompact"].pc = "updated" /\ procs'["precompact"].pc = "returned" =>
          /\ \A name \in Deleted :
                 /\ name # "PERSISTENT_STATE.yaml"
                 /\ NamedCheckpoint(name)
                 /\ procs["precompact"].now - procs["precompact"].out_dir[name].mtime
                        >= CHECKPOINT_RETENTION_DAYS * SecondsPerDay
          /\ {procs["precompact"].raw_dst, procs["precompact"].md_dst}
                 \subseteq DOMAIN procs'["precompact"].out_dir]_vars

\* a run has returned whose cleanup deleted the checkpoint of the earlier
\* session and left the state file, as old as that checkpoint, the note, the
\* log, the directory and what the run wrote
C30_Witness ==
    /\ procs["precompact"].pc = "returned"
    /\ "20260101-000000__s0__auto.md" \notin DOMAIN procs["precompact"].out_dir
    /\ "20260101-000000__s0__auto.transcript.jsonl" \notin DOMAIN procs["precompact"].out_dir
    /\ {"PERSISTENT_STATE.yaml", "notes.md", "run__log.txt", "archive__2025.md",
        procs["precompact"].raw_dst, procs["precompact"].md_dst} \subseteq DOMAIN procs["precompact"].out_dir
    /\ procs["precompact"].out_dir["PERSISTENT_STATE.yaml"].mtime = 0

=============================================================================
